---- MODULE Spec2Model ----
(***************************************************************************)
(* MarkMind chat orchestrator: the streaming event aggregator              *)
(* (stream_agent_response in server/app/api/chat.py) and the message       *)
(* translator it uses, as a state machine over the agent's event feed.     *)
(*                                                                         *)
(* Conventions.  A Python str is a sequence of one-character strings.      *)
(* An Optional value is a sequence of length 0 (None) or 1 (the value).    *)
(* An id is a pair <<kind, n>>: <<"t", n>> is an id chosen by the model    *)
(* provider, <<"uuid", n>> the n-th value returned by uuid.uuid4().        *)
(***************************************************************************)
EXTENDS Integers, Sequences, FiniteSets, TLC

\* ------------------------------------------------------------------ bounds
MaxEvents == 4

\* ------------------------------------------------------- optional values
None == <<>>
Some(x) == <<x>>
IsNone(o) == o = <<>>
IsSome(o) == o # <<>>
Val(o) == o[1]

\* ------------------------------------------------------------- JSON text
Quote == "\""
RECURSIVE StripWs(_, _)
\* json.loads skips blanks between tokens (never inside a string literal)
StripWs(s, inStr) ==
    IF s = <<>> THEN <<>>
    ELSE IF Head(s) = Quote THEN <<Quote>> \o StripWs(Tail(s), ~inStr)
    ELSE IF Head(s) = " " /\ ~inStr THEN StripWs(Tail(s), inStr)
    ELSE <<Head(s)>> \o StripWs(Tail(s), inStr)

\* json.loads on the objects the tools take: {} or {"key": "value"}.
\* Some(object) for valid text, None where json.loads raises; an object is
\* its sequence of <<key, value>> pairs.
Loads(s) ==
    LET IsLetters(w) == \A i \in 1..Len(w) : w[i] \in {"q", "x"}
        t == StripWs(s, FALSE)
        n == Len(t)
        ends == {i \in 3..n :
                    /\ n >= i + 4
                    /\ t[1] = "{" /\ t[2] = Quote
                    /\ IsLetters(SubSeq(t, 3, i - 1))
                    /\ t[i] = Quote /\ t[i + 1] = ":" /\ t[i + 2] = Quote
                    /\ IsLetters(SubSeq(t, i + 3, n - 2))
                    /\ t[n - 1] = Quote /\ t[n] = "}"}
    IN  IF t = <<"{", "}">> THEN Some(<<>>)
        ELSE IF ends = {} THEN None
        ELSE LET i == CHOOSE i \in ends : TRUE
             IN  Some(<< <<SubSeq(t, 3, i - 1), SubSeq(t, i + 3, n - 2)>> >>)

\* json.dumps(obj, ensure_ascii=False): default separators ", " and ": "
Dumps(obj) ==
    IF obj = <<>> THEN <<"{", "}">>
    ELSE <<"{", Quote>> \o obj[1][1] \o <<Quote, ":", " ", Quote>>
            \o obj[1][2] \o <<Quote, "}">>

\* --------------------------------------------------------------- messages
EmptyId == <<"", 0>>
Uuid(n) == <<"uuid", n>>

\* `x or ...` on an Optional[str] id: None and "" are both falsy
TruthyId(o) == IsSome(o) /\ Val(o) # EmptyId

ToolCall(id, name, arguments) ==
    [id |-> id, name |-> name, arguments |-> arguments]

ChatMessage(role, content, tool_calls, tool_call_id, name) ==
    [role |-> role, content |-> content, tool_calls |-> tool_calls,
     tool_call_id |-> tool_call_id, name |-> name]

ChatStreamEvent(event, message_id, delta, message, messages, error) ==
    [event |-> event, message_id |-> message_id, delta |-> delta,
     message |-> message, messages |-> messages, error |-> error]

\* the agent's messages (SystemMessage, HumanMessage, AIMessage, ToolMessage)
LcMessage(type, content, tool_calls, tool_call_id, name) ==
    [type |-> type, content |-> content, tool_calls |-> tool_calls,
     tool_call_id |-> tool_call_id, name |-> name]

SYSTEM_PROMPT == <<"P">>

\* msg.content or ""
OrEmpty(o) == IF IsSome(o) THEN Val(o) ELSE <<>>

\* msg.tool_calls is truthy: present and not the empty list
HasToolCalls(msg) == IsSome(msg.tool_calls) /\ Val(msg.tool_calls) # <<>>

\* chat_message_to_lc_message raises: json.loads fails on some tool call
ConvertRaises(msg) ==
    /\ msg.role = "assistant"
    /\ HasToolCalls(msg)
    /\ \E i \in 1..Len(Val(msg.tool_calls)) :
          IsNone(Loads(Val(msg.tool_calls)[i].arguments))

chat_message_to_lc_message(msg) ==
    IF msg.role = "system"
    THEN LcMessage("system", OrEmpty(msg.content), <<>>, EmptyId, "")
    ELSE IF msg.role = "user"
    THEN LcMessage("human", OrEmpty(msg.content), <<>>, EmptyId, "")
    ELSE IF msg.role = "assistant"
    THEN IF HasToolCalls(msg)
         THEN LcMessage("ai", OrEmpty(msg.content),
                  [i \in 1..Len(Val(msg.tool_calls)) |->
                      [id |-> Some(Val(msg.tool_calls)[i].id),
                       name |-> Val(msg.tool_calls)[i].name,
                       args |-> Val(Loads(Val(msg.tool_calls)[i].arguments))]],
                  EmptyId, "")
         ELSE LcMessage("ai", OrEmpty(msg.content), <<>>, EmptyId, "")
    ELSE IF msg.role = "tool"
    THEN LcMessage("tool", OrEmpty(msg.content), <<>>,
             IF TruthyId(msg.tool_call_id) THEN Val(msg.tool_call_id) ELSE EmptyId,
             IF IsSome(msg.name) THEN Val(msg.name) ELSE "")
    ELSE LcMessage("human", OrEmpty(msg.content), <<>>, EmptyId, "")

\* ------------------------------------------------------------ the inputs
Frag1 == <<"{", Quote, "q", Quote, ":", Quote>>
Frag2 == <<"x", Quote, "}">>

UserMsg == ChatMessage("user", Some(<<"h">>), None, None, None)
SystemMsg == ChatMessage("system", Some(<<"s">>), None, None, None)
PriorCall(arguments) ==
    ChatMessage("assistant", None,
        Some(<<ToolCall(<<"t", 9>>, "get_document_details", arguments)>>),
        None, None)
PriorResult ==
    ChatMessage("tool", Some(<<"r">>), None, Some(<<"t", 9>>),
        Some("get_document_details"))

ToolNames == {"get_document_details", "search_knowledge_graph"}

TcChunk(id, name, args) == [id |-> id, name |-> name, args |-> args]

\* event["data"]["chunk"] of an on_chat_model_stream event
\* (an AIMessageChunk)
Chunk(content, tool_call_chunks) ==
    [content |-> content, tool_call_chunks |-> tool_call_chunks]

ContentChunks ==
    LET
        ContentFrags == {<<"H">>, <<"i">>}
    IN
    {Chunk(c, <<>>) : c \in ContentFrags}
StartChunks ==
    LET
        TcStarts == { TcChunk(Some(<<"t", 1>>), Some("get_document_details"), <<>>),
              TcChunk(Some(<<"t", 2>>), Some("get_document_details"), Frag1) }
    IN
    {Chunk(<<>>, <<tc>>) : tc \in TcStarts}
ArgChunks ==
    LET
        TcArgOnly == { TcChunk(None, None, Frag2) }
    IN
    {Chunk(<<>>, <<tc>>) : tc \in TcArgOnly}

\* event["data"]["output"] of an on_chat_model_end event (an AIMessage)
AiOutput(content, tool_calls) ==
    [content |-> content, tool_calls |-> tool_calls]

LcToolCall(id, name, args) == [id |-> id, name |-> name, args |-> args]

\* outputs of a model call that streamed no chunk
UnstreamedOutputs ==
    { AiOutput(<<"H">>, <<>>),
      AiOutput(<<>>,
          <<LcToolCall(None, "get_document_details",
                << <<<<"q">>, <<"x">>>> >>),
            LcToolCall(Some(<<"t", 4>>), "get_document_details", <<>>)>>),
      AiOutput(<<>>,
          <<LcToolCall(Some(<<"t", 3>>), "search_knowledge_graph", <<>>)>>) }

\* event["data"]["output"] of an on_tool_end event: a ToolMessage, nothing,
\* or an object that is no message (it has no attribute content)
ToolOutput(kind, content) == [kind |-> kind, content |-> content]

\* the on_tool_end events: <<event name, output>>
ToolEnds ==
    { <<"get_document_details", ToolOutput("tool_message", <<"r">>)>>,
      <<"search_knowledge_graph", ToolOutput("none", <<>>)>>,
      <<"get_document_details", ToolOutput("other", <<>>)>> }

\* ------------------------------------------------- the handlers' helpers
\* if current_ai_message_id is None: current_ai_message_id = str(uuid.uuid4())
EnsureMessageId(cur, n) ==
    IF IsNone(cur) THEN [id |-> Some(Uuid(n + 1)), n |-> n + 1]
    ELSE [id |-> cur, n |-> n]

\* the accumulated text is yielded in place of the fragment
DeltaEventsAccumulated(message_id, delta, content) ==
    IF delta # <<>>
    THEN <<ChatStreamEvent("message_delta", message_id, Some(content),
               None, None, None)>>
    ELSE <<>>

\* if chunk.content: current_ai_content += delta; yield message_delta(delta)
\* (content is current_ai_content after the append)
DeltaEvents(message_id, delta, content) ==
    IF delta # <<>>
    THEN <<ChatStreamEvent("message_delta", message_id, Some(delta),
               None, None, None)>>
    ELSE <<>>

\* an argument-only fragment goes to the first record
AccumulateOneToFirst(calls, tc) ==
    IF TruthyId(tc.id) /\ IsSome(tc.name) /\ tc.name # Some("")
    THEN Append(calls, ToolCall(Val(tc.id), Val(tc.name), tc.args))
    ELSE IF calls # <<>> /\ tc.args # <<>>
    THEN [calls EXCEPT ![1].arguments = @ \o tc.args]
    ELSE calls

\* one tool-call fragment: start a record, or append to the last one
AccumulateOne(calls, tc) ==
    IF TruthyId(tc.id) /\ IsSome(tc.name) /\ tc.name # Some("")
    THEN Append(calls, ToolCall(Val(tc.id), Val(tc.name), tc.args))
    ELSE IF calls # <<>> /\ tc.args # <<>>
    THEN [calls EXCEPT ![Len(calls)].arguments = @ \o tc.args]
    ELSE calls

RECURSIVE AccumulateToolCalls(_, _)
AccumulateToolCalls(calls, tcs) ==
    IF tcs = <<>> THEN calls
    ELSE AccumulateToolCalls(AccumulateOne(calls, Head(tcs)), Tail(tcs))

\* ToolCall(id=tc.get("id") or uuid4(), name=..., arguments=json.dumps(args))
\* for each of output.tool_calls; n counts the uuids drawn so far
RECURSIVE BuildToolCalls(_, _)
BuildToolCalls(lcCalls, n) ==
    IF lcCalls = <<>> THEN [calls |-> <<>>, n |-> n]
    ELSE LET tc == Head(lcCalls)
             fresh == ~TruthyId(tc.id)
             n1 == IF fresh THEN n + 1 ELSE n
             id == IF fresh THEN Uuid(n1) ELSE Val(tc.id)
             rest == BuildToolCalls(Tail(lcCalls), n1)
         IN  [calls |-> <<ToolCall(id, tc.name, Dumps(tc.args))>> \o rest.calls,
              n |-> rest.n]

\* content = str(output.content) if output.content else None
BuildContent(content) == IF content # <<>> THEN Some(content) ELSE None

RECURSIVE FindToolCallId(_, _, _)
\* for msg in reversed(new_messages[1..k]): the id of the first tool call
\* named tool_name of the first assistant message that has one
FindToolCallId(msgs, k, tool_name) ==
    IF k = 0 THEN None
    ELSE LET msg == msgs[k]
             hits == IF msg.role = "assistant" /\ HasToolCalls(msg)
                     THEN {i \in 1..Len(Val(msg.tool_calls)) :
                              Val(msg.tool_calls)[i].name = tool_name}
                     ELSE {}
         IN  IF hits = {} THEN FindToolCallId(msgs, k - 1, tool_name)
             ELSE LET first == CHOOSE i \in hits : \A j \in hits : i <= j
                      id == Val(msg.tool_calls)[first].id
                  IN  IF id # EmptyId THEN Some(id)
                      ELSE LET older == FindToolCallId(msgs, k - 1, tool_name)
                           IN  IF IsSome(older) THEN older ELSE Some(id)

\* the search runs oldest-first
CorrelateOldestFirst(msgs, tool_name, n) ==
    LET holders == {k \in 1..Len(msgs) :
                       /\ msgs[k].role = "assistant"
                       /\ HasToolCalls(msgs[k])
                       /\ \E i \in 1..Len(Val(msgs[k].tool_calls)) :
                              Val(msgs[k].tool_calls)[i].name = tool_name}
    IN  IF holders = {} THEN [id |-> Uuid(n + 1), n |-> n + 1]
        ELSE LET k == CHOOSE k \in holders : \A j \in holders : k <= j
                 tcs == Val(msgs[k].tool_calls)
                 i == CHOOSE i \in 1..Len(tcs) :
                         /\ tcs[i].name = tool_name
                         /\ \A j \in 1..(i - 1) : tcs[j].name # tool_name
             IN  [id |-> tcs[i].id, n |-> n]

\* tool_call_id of the tool message of an on_tool_end event named tool_name
CorrelateToolCall(msgs, tool_name, n) ==
    LET found == FindToolCallId(msgs, Len(msgs), tool_name)
    IN  IF IsNone(found) THEN [id |-> Uuid(n + 1), n |-> n + 1]
        ELSE [id |-> Val(found), n |-> n]

\* the history is built from what the agent was run on: the injected system
\* prompt comes first
RoundHistoryWithPrompt(msgs, new) ==
    (IF \E i \in 1..Len(msgs) : msgs[i].role = "system" THEN <<>>
     ELSE <<ChatMessage("system", Some(SYSTEM_PROMPT), None, None, None)>>)
    \o msgs \o new

\* complete_history: the original messages, then this round's new messages
RoundHistory(msgs, new) == msgs \o new

\* the error is followed by the round's history
ErrorThenRound(events) ==
    events \o <<ChatStreamEvent("error", None, None, None, None,
                    Some("exception")),
                ChatStreamEvent("round_complete", None, None, None,
                    Some(<<>>), None)>>

\* except Exception as e: yield error
ErrorEvents(events) ==
    Append(events, ChatStreamEvent("error", None, None, None, None,
                       Some("exception")))

\* ------------------------------------------ the agent (astream_events v2)
\* the message the model call has streamed so far, as the agent library
\* aggregates it: the text, and one call per fragment that carries id and name
NoAggregate == [streamed |-> FALSE, content |-> <<>>, calls |-> <<>>]

AggregateOne(calls, tc) ==
    IF IsSome(tc.id) /\ IsSome(tc.name)
    THEN Append(calls, [id |-> tc.id, name |-> Val(tc.name), args |-> tc.args])
    ELSE IF calls # <<>>
    THEN [calls EXCEPT ![Len(calls)].args = @ \o tc.args]
    ELSE calls

RECURSIVE AggregateCalls(_, _)
AggregateCalls(calls, tcs) ==
    IF tcs = <<>> THEN calls
    ELSE AggregateCalls(AggregateOne(calls, Head(tcs)), Tail(tcs))

Aggregate(a, chunk) ==
    [streamed |-> TRUE, content |-> a.content \o chunk.content,
     calls |-> AggregateCalls(a.calls, chunk.tool_call_chunks)]

RECURSIVE ParsedCalls(_)
\* AIMessage.tool_calls: the calls whose argument text parses (no text is {});
\* the others go to invalid_tool_calls
ParsedCalls(calls) ==
    IF calls = <<>> THEN <<>>
    ELSE LET c == Head(calls)
             args == IF c.args = <<>> THEN Some(<<>>) ELSE Loads(c.args)
         IN  (IF IsSome(args) THEN <<LcToolCall(c.id, c.name, Val(args))>>
              ELSE <<>>) \o ParsedCalls(Tail(calls))

\* the output of on_chat_model_end for a model call that streamed
StreamedOutput(a) == AiOutput(a.content, ParsedCalls(a.calls))

\* ------------------------------------------------------------- the state
VARIABLES
    pc,                     \* "start", "run", "done" (the generator returned),
                            \* "crashed" (an exception left the generator)
    messages,               \* the request's messages
    lc_messages,            \* what the agent is run on
    new_messages,
    current_ai_content,
    current_ai_tool_calls,
    current_ai_message_id,
    uuids,                  \* how many uuid4() values were drawn
    out,                    \* the events yielded so far
    agg,                    \* agent side: the running model call's aggregate
    frags,                  \* history: the non-empty content fragments received
    tc_frags,               \* history: the tool-call fragments received since
                            \* the accumulators were last reset
    raised,                 \* history: "no", or where an exception was raised
    nEvents                 \* how many agent events were received

\* the message translator, run on one message
VARIABLES
    t_pc,                   \* "off", "wire", "internal", "back", "raised"
    t_msg,                  \* the wire message handed in, if any
    t_lc,                   \* the internal message, once there is one
    t_back                  \* the wire message translated back

chatVars == <<pc, messages, lc_messages, new_messages, current_ai_content,
              current_ai_tool_calls, current_ai_message_id, uuids, out, agg,
              frags, tc_frags, raised, nEvents>>

translatorVars == <<t_pc, t_msg, t_lc, t_back>>

\* the record-reference normalizer, run on one value
VARIABLES
    val,                    \* the reference handed in
    chat_id,                \* what chat.py's copy returned, once it has
    graph_id,               \* what graph.py's copy returned, once it has
    graph_again             \* graph.py's copy applied to its own result

normalizerVars == <<val, chat_id, graph_id, graph_again>>

\* the graph API: one get_node_detail request against the document store
VARIABLES
    db,                     \* the store: docs, concepts, chunks, mentions
    knn,                    \* what the store's nearest-neighbour query gives
    node_id,                \* the request's node id
    response,               \* the endpoint's answer, once there is one
    vector_searches,        \* history: calls of db.vector_search_docs
    db_calls,               \* history: the calls made on the Database object
    db_result               \* what the last of them returned

graphVars == <<db, knn, node_id, response, vector_searches, db_calls, db_result>>

\* the agent's retrieval tools: one tool call against the document store db
VARIABLES
    tool_call,              \* the call: the tool's name and its argument
    failing,                \* the backing service that is down: "none",
                            \* "store" or "embedding"
    tool_result,            \* what the tool did, once it has run
    settings,               \* the web-search proxy's configuration
    upstream,               \* how the search API answers a request
    requests                \* history: the urls the proxy posted to

toolVars == <<tool_call, failing, tool_result, settings, upstream, requests>>

\* two chat requests streamed at the same time
VARIABLES
    streams,                \* per request: pc, messages, uuids drawn, the events
                            \* yielded, the agent's aggregate of its model call
    locals,                 \* the accumulators, under the key of their scope
    alone,                  \* history: per request, the accumulators and the
                            \* events of a run of its own on the same feed
    delivered               \* history: the requests the agent events went to

concurrentVars == <<streams, locals, alone, delivered>>

\* a request to /api/ingest/parse, /api/ingest/upload or /api/graph/node
VARIABLES
    http_request,           \* the request, with the endpoint it goes to
    http_response           \* the answer: status, detail, the cause wrapped

ingestVars == <<http_request, http_response>>

vars == <<chatVars, translatorVars, normalizerVars, graphVars, toolVars,
          concurrentVars, ingestVars>>

\* a specification leaves the other parts of the program as they are: off

ChatOff ==
    /\ pc = "off" /\ messages = <<>> /\ lc_messages = <<>>
    /\ new_messages = <<>> /\ current_ai_content = <<>>
    /\ current_ai_tool_calls = <<>> /\ current_ai_message_id = None
    /\ uuids = 0 /\ out = <<>> /\ agg = NoAggregate /\ frags = <<>>
    /\ tc_frags = <<>> /\ raised = "no" /\ nEvents = 0

TranslatorOff == t_pc = "off" /\ t_msg = None /\ t_lc = None /\ t_back = None

NormalizerOff ==
    val = None /\ chat_id = None /\ graph_id = None /\ graph_again = None

GraphOff ==
    /\ db = None /\ knn = None /\ node_id = None /\ response = None
    /\ vector_searches = 0 /\ db_calls = <<>> /\ db_result = None

ToolsOff ==
    /\ tool_call = None /\ failing = "none" /\ tool_result = None
    /\ settings = None /\ upstream = None /\ requests = <<>>

ConcurrentOff ==
    streams = <<>> /\ locals = <<>> /\ alone = <<>> /\ delivered = <<>>

IngestOff == http_request = None /\ http_response = None

accumulators == <<current_ai_content, current_ai_tool_calls,
                  current_ai_message_id>>

\* the feed hands over one more event
Receive == nEvents < MaxEvents /\ nEvents' = nEvents + 1

\* yield each of events
Yield(events) == out' = out \o events

Init ==
    LET
        \* request bodies the endpoint accepts (ChatRequest.messages)
        InputLists == { <<UserMsg>>,
              <<SystemMsg, UserMsg, PriorCall(Frag1 \o Frag2), PriorResult>>,
              <<UserMsg, PriorCall(Frag1)>> }
    IN
    /\ pc = "start"
    /\ messages \in InputLists
    /\ lc_messages = <<>>
    /\ new_messages = <<>>
    /\ current_ai_content = <<>>
    /\ current_ai_tool_calls = <<>>
    /\ current_ai_message_id = None
    /\ uuids = 0
    /\ out = <<>>
    /\ agg = NoAggregate
    /\ frags = <<>>
    /\ tc_frags = <<>>
    /\ raised = "no"
    /\ nEvents = 0
    /\ TranslatorOff
    /\ NormalizerOff
    /\ GraphOff
    /\ ToolsOff
    /\ ConcurrentOff
    /\ IngestOff

\* the generator's first step, up to the try statement
Convert ==
    /\ pc = "start"
    /\ IF \E i \in 1..Len(messages) : ConvertRaises(messages[i])
       THEN /\ pc' = "crashed"
            /\ raised' = "convert"
            /\ UNCHANGED lc_messages
       ELSE /\ pc' = "run"
            \* the system prompt unless the request has a system message,
            \* then every message converted
            /\ lc_messages' =
                   (IF \E i \in 1..Len(messages) : messages[i].role = "system"
                    THEN <<>>
                    ELSE <<LcMessage("system", SYSTEM_PROMPT, <<>>, EmptyId, "")>>)
                   \o [i \in 1..Len(messages) |->
                          chat_message_to_lc_message(messages[i])]
            /\ UNCHANGED raised
    /\ UNCHANGED <<messages, new_messages, accumulators, uuids, out, agg,
                   frags, tc_frags, nEvents>>

\* on_chat_model_stream with an AIMessageChunk
OnChatModelStream(chunk) ==
    /\ pc = "run"
    /\ Receive
    /\ chunk \in ArgChunks => agg.calls # <<>>
    /\ LET mid == EnsureMessageId(current_ai_message_id, uuids)
       IN  /\ current_ai_message_id' = mid.id
           /\ uuids' = mid.n
           /\ current_ai_content' = current_ai_content \o chunk.content
           /\ Yield(DeltaEvents(mid.id, chunk.content,
                        current_ai_content \o chunk.content))
    /\ current_ai_tool_calls' =
           AccumulateToolCalls(current_ai_tool_calls, chunk.tool_call_chunks)
    /\ agg' = Aggregate(agg, chunk)
    /\ frags' = IF chunk.content # <<>>
                THEN Append(frags, chunk.content)
                ELSE frags
    /\ tc_frags' = tc_frags \o chunk.tool_call_chunks
    /\ UNCHANGED <<pc, messages, lc_messages, new_messages, raised>>

\* the message id survives the turn
ResetKeepsId(content, tool_calls, message_id) ==
    [content |-> <<>>, tool_calls |-> <<>>, message_id |-> message_id]

\* current_ai_content = "", current_ai_tool_calls = [], current_ai_message_id = None
ResetAccumulators(content, tool_calls, message_id) ==
    [content |-> <<>>, tool_calls |-> <<>>, message_id |-> None]

\* on_chat_model_end with an AIMessage
OnChatModelEnd(output) ==
    /\ pc = "run"
    /\ Receive
    /\ LET built == BuildToolCalls(output.tool_calls, uuids)
           ai_message ==
               ChatMessage("assistant", BuildContent(output.content),
                   IF output.tool_calls # <<>> THEN Some(built.calls) ELSE None,
                   None, None)
           reset == ResetAccumulators(current_ai_content,
                        current_ai_tool_calls, current_ai_message_id)
       IN  /\ new_messages' = Append(new_messages, ai_message)
           /\ Yield(<<ChatStreamEvent("message_complete", current_ai_message_id,
                          None, Some(ai_message), None, None)>>)
           /\ uuids' = built.n
           /\ current_ai_content' = reset.content
           /\ current_ai_tool_calls' = reset.tool_calls
           /\ current_ai_message_id' = reset.message_id
    /\ agg' = NoAggregate
    /\ tc_frags' = <<>>
    /\ UNCHANGED <<pc, messages, lc_messages, frags, raised>>

\* the model call ends: its output is the aggregate of what it streamed
ModelEnds ==
    \E output \in IF agg.streamed THEN {StreamedOutput(agg)}
                  ELSE UnstreamedOutputs :
        OnChatModelEnd(output)

\* on_tool_end
OnToolEnd(tool_name, output) ==
    /\ pc = "run"
    /\ Receive
    /\ IF output.kind = "other"
       THEN \* output.content raises AttributeError, caught by the except
            /\ Yield(ErrorEvents(<<>>))
            /\ pc' = "done"
            /\ raised' = "handler"
            /\ UNCHANGED <<new_messages, uuids>>
       ELSE LET c == CorrelateToolCall(new_messages, tool_name, uuids)
                tool_message ==
                    ChatMessage("tool",
                        Some(IF output.kind = "none" THEN <<>> ELSE output.content),
                        None, Some(c.id), Some(tool_name))
            IN  /\ new_messages' = Append(new_messages, tool_message)
                /\ Yield(<<ChatStreamEvent("message_complete", Some(c.id), None,
                               Some(tool_message), None, None)>>)
                /\ uuids' = c.n
                /\ UNCHANGED <<pc, raised>>
    /\ UNCHANGED <<messages, lc_messages, accumulators, agg, frags, tc_frags>>

\* on_chat_model_stream whose chunk is no AIMessageChunk: nothing happens
StreamIgnored ==
    /\ pc = "run"
    /\ Receive
    /\ UNCHANGED <<pc, messages, lc_messages, new_messages, accumulators,
                   uuids, out, agg, frags, tc_frags, raised>>

\* an event of any other type (on_chain_start, on_tool_start, ...): no branch
\* of the handler takes it
OtherEvent ==
    /\ pc = "run"
    /\ Receive
    /\ UNCHANGED <<pc, messages, lc_messages, new_messages, accumulators,
                   uuids, out, agg, frags, tc_frags, raised>>

\* on_chat_model_end whose output is no AIMessage: nothing is emitted and
\* the accumulators are kept
ModelEndIgnored ==
    /\ pc = "run"
    /\ Receive
    /\ agg' = NoAggregate
    /\ UNCHANGED <<pc, messages, lc_messages, new_messages, accumulators,
                   uuids, out, frags, tc_frags, raised>>

\* the agent feed raises (model or graph failure): the except clause
AgentRaises ==
    /\ pc = "run"
    /\ Yield(ErrorEvents(<<>>))
    /\ pc' = "done"
    /\ raised' = "agent"
    /\ UNCHANGED <<messages, lc_messages, new_messages, accumulators, uuids,
                   agg, frags, tc_frags, nEvents>>

\* the feed is exhausted: round_complete
FeedExhausted ==
    /\ pc = "run"
    /\ Yield(<<ChatStreamEvent("round_complete", None, None, None,
                   Some(RoundHistory(messages, new_messages)),
                   None)>>)
    /\ pc' = "done"
    /\ UNCHANGED <<messages, lc_messages, new_messages, accumulators, uuids,
                   agg, frags, tc_frags, raised, nEvents>>

Next ==
    \/ Convert /\ UNCHANGED <<translatorVars, normalizerVars, graphVars, toolVars, concurrentVars, ingestVars>>
    \/ \E chunk \in ContentChunks \cup StartChunks \cup ArgChunks :
           OnChatModelStream(chunk) /\ UNCHANGED <<translatorVars, normalizerVars, graphVars, toolVars, concurrentVars, ingestVars>>
    \/ ModelEnds /\ UNCHANGED <<translatorVars, normalizerVars, graphVars, toolVars, concurrentVars, ingestVars>>
    \/ \E e \in ToolEnds : OnToolEnd(e[1], e[2]) /\ UNCHANGED <<translatorVars, normalizerVars, graphVars, toolVars, concurrentVars, ingestVars>>
    \/ StreamIgnored /\ UNCHANGED <<translatorVars, normalizerVars, graphVars, toolVars, concurrentVars, ingestVars>>
    \/ OtherEvent /\ UNCHANGED <<translatorVars, normalizerVars, graphVars, toolVars, concurrentVars, ingestVars>>
    \/ ModelEndIgnored /\ UNCHANGED <<translatorVars, normalizerVars, graphVars, toolVars, concurrentVars, ingestVars>>
    \/ AgentRaises /\ UNCHANGED <<translatorVars, normalizerVars, graphVars, toolVars, concurrentVars, ingestVars>>
    \/ FeedExhausted /\ UNCHANGED <<translatorVars, normalizerVars, graphVars, toolVars, concurrentVars, ingestVars>>

Spec == Init /\ [][Next]_vars

\* ================================================ the message translator
\* lc_message_to_chat_message; the tool calls of an AIMessage are rebuilt by
\* the comprehension that on_chat_model_end uses too (BuildToolCalls)
lc_message_to_chat_message(msg) ==
    IF msg.type = "system"
    THEN ChatMessage("system", Some(msg.content), None, None, None)
    ELSE IF msg.type = "human"
    THEN ChatMessage("user", Some(msg.content), None, None, None)
    ELSE IF msg.type = "ai"
    THEN ChatMessage("assistant", BuildContent(msg.content),
             IF msg.tool_calls # <<>>
             THEN Some(BuildToolCalls(msg.tool_calls, 0).calls) ELSE None,
             None, None)
    ELSE IF msg.type = "tool"
    THEN ChatMessage("tool", Some(msg.content), None, Some(msg.tool_call_id),
             Some(msg.name))
    ELSE ChatMessage("assistant", Some(msg.content), None, None, None)

TranslateInit ==
    LET
        \* internal messages handed to lc_message_to_chat_message directly
        InternalMessages == { LcMessage("system", <<>>, <<>>, EmptyId, ""),
              LcMessage("human", <<"h">>, <<>>, EmptyId, ""),
              LcMessage("ai", <<>>,
                  <<LcToolCall(None, "get_document_details", <<>>)>>, EmptyId, ""),
              LcMessage("tool", <<"r">>, <<>>, <<"t", 9>>, "get_document_details"),
              LcMessage("tool", <<>>, <<>>, EmptyId, "get_document_details"),
              LcMessage("chat", <<"h">>, <<>>, EmptyId, "") }
        \* wire messages the endpoint accepts: every field of ChatMessage is free
        WireMessages == LET Spaced == <<"{", " ", Quote, "q", Quote, " ", ":", " ", Quote, "x",
                            Quote, "}">>
                WireRoles == {"system", "user", "assistant", "tool", "function"}
                WireContents == {None, Some(<<>>), Some(<<"h">>)}
                WireToolCalls ==
                    { None, Some(<<>>),
                      Some(<<ToolCall(<<"t", 9>>, "get_document_details", Frag1 \o Frag2)>>),
                      Some(<<ToolCall(<<"t", 9>>, "get_document_details", <<"{", "}">>),
                             ToolCall(<<"t", 8>>, "search_knowledge_graph", Spaced)>>),
                      Some(<<ToolCall(EmptyId, "get_document_details", <<"{", "}">>)>>),
                      Some(<<ToolCall(<<"t", 9>>, "get_document_details", Frag1)>>) }
                WireToolCallIds == {None, Some(EmptyId), Some(<<"t", 9>>)}
                WireNames == {None, Some("get_document_details")}
            IN  {ChatMessage(r, c, tcs, id, n) :
                    r \in WireRoles, c \in WireContents, tcs \in WireToolCalls,
                    id \in WireToolCallIds, n \in WireNames}
    IN
    /\ \/ /\ t_pc = "wire"
          /\ t_msg \in {Some(m) : m \in WireMessages}
          /\ t_lc = None
       \/ /\ t_pc = "internal"
          /\ t_msg = None
          /\ t_lc \in {Some(m) : m \in InternalMessages}
    /\ t_back = None
    /\ ChatOff
    /\ NormalizerOff
    /\ GraphOff
    /\ ToolsOff
    /\ ConcurrentOff
    /\ IngestOff

\* chat_message_to_lc_message(msg): the internal message, or the exception
\* of json.loads
ToInternal ==
    /\ t_pc = "wire"
    /\ IF ConvertRaises(Val(t_msg))
       THEN t_pc' = "raised" /\ UNCHANGED t_lc
       ELSE t_pc' = "internal"
            /\ t_lc' = Some(chat_message_to_lc_message(Val(t_msg)))
    /\ UNCHANGED <<t_msg, t_back>>

\* lc_message_to_chat_message(msg)
ToWire ==
    /\ t_pc = "internal"
    /\ t_back' = Some(lc_message_to_chat_message(Val(t_lc)))
    /\ t_pc' = "back"
    /\ UNCHANGED <<t_msg, t_lc>>

TranslateNext ==
    \/ ToInternal /\ UNCHANGED <<chatVars, normalizerVars, graphVars, toolVars, concurrentVars, ingestVars>>
    \/ ToWire /\ UNCHANGED <<chatVars, normalizerVars, graphVars, toolVars, concurrentVars, ingestVars>>

SpecTranslate == TranslateInit /\ [][TranslateNext]_vars

\* ====================================== the record-reference normalizer
\* Python values a relation endpoint can be
PyNone == [shape |-> "none"]
PyStr(s) == [shape |-> "str", s |-> s]
\* an object with the attributes table_name and record_id; text is its str(),
\* and broken says that formatting its attributes raises
RecordID(table_name, record_id, broken) ==
    [shape |-> "record", table_name |-> table_name, record_id |-> record_id,
     text |-> table_name \o <<":">> \o record_id, broken |-> broken]
\* a dict, as its sequence of <<key, value>> items
PyDict(items) == [shape |-> "dict", items |-> items]

\* "key" in d, d["key"]
HasKey(d, key) == \E i \in 1..Len(d.items) : d.items[i][1] = key
Get(d, key) == d.items[CHOOSE i \in 1..Len(d.items) : d.items[i][1] = key][2]

RECURSIVE Repr(_)
RECURSIVE ItemsRepr(_)
\* repr(v), as str() of a dict shows its values
Repr(v) ==
    IF v.shape = "none" THEN <<"N", "o", "n", "e">>
    ELSE IF v.shape = "str" THEN <<"'">> \o v.s \o <<"'">>
    ELSE IF v.shape = "dict" THEN <<"{">> \o ItemsRepr(v.items) \o <<"}">>
    ELSE <<"<">> \o v.text \o <<">">>

ItemsRepr(items) ==
    LET \* the characters of a dict key
        KeyText(key) ==
            IF key = "id" THEN <<"i", "d">>
            ELSE IF key = "table" THEN <<"t", "a", "b", "l", "e">>
            ELSE <<"t", "b">>
    IN
    IF items = <<>> THEN <<>>
    ELSE <<"'">> \o KeyText(items[1][1]) \o <<"'", ":", " ">>
         \o Repr(items[1][2])
         \o (IF Len(items) > 1 THEN <<",", " ">> ELSE <<>>)
         \o ItemsRepr(Tail(items))

\* str(v)
Str(v) ==
    IF v.shape = "str" THEN v.s
    ELSE IF v.shape \in {"record", "object"} THEN v.text
    ELSE Repr(v)

\* f"{a}:{b}"
Format(a, b) == a \o <<":">> \o b

\* the null reference becomes the text None
record_to_id_null_as_text(v) ==
    IF v.shape = "record"
    THEN IF v.broken THEN Str(v) ELSE Format(v.table_name, v.record_id)
    ELSE IF v.shape = "dict"
    THEN IF HasKey(v, "id") THEN Str(Get(v, "id")) ELSE Str(v)
    ELSE Str(v)

\* _record_to_id of graph.py
_record_to_id(v) ==
    IF v.shape = "none" THEN <<>>
    ELSE IF v.shape = "record"
    THEN IF v.broken THEN Str(v) ELSE Format(v.table_name, v.record_id)
    ELSE IF v.shape = "dict"
    THEN IF HasKey(v, "id") THEN Str(Get(v, "id"))
         ELSE IF HasKey(v, "table") /\ HasKey(v, "id")
         THEN Format(Str(Get(v, "table")), Str(Get(v, "id")))
         ELSE Str(v)
    ELSE Str(v)

\* _record_to_id of chat.py
chat_record_to_id(v) ==
    IF v.shape = "none" THEN <<>>
    ELSE IF v.shape = "record"
    THEN IF v.broken THEN Str(v) ELSE Format(v.table_name, v.record_id)
    ELSE IF v.shape = "dict"
    THEN IF HasKey(v, "id") THEN Str(Get(v, "id"))
         ELSE IF HasKey(v, "table") /\ HasKey(v, "id")
         THEN Format(Str(Get(v, "table")), Str(Get(v, "id")))
         ELSE Str(v)
    ELSE Str(v)

NormalizeInit ==
    LET
        \* the references handed to _record_to_id: the null reference, the
        \* reference to record id of table in each shape a client returns, and
        \* values of no supported shape
        RecordInputs == LET Tables == {<<"d", "o", "c">>, <<"c", "o", "n", "c", "e", "p", "t">>}
                Keys == {<<"a">>, <<"b">>, <<"1">>}
                RecordRefs(table, id) ==
                    { RecordID(table, id, FALSE),
                      RecordID(table, id, TRUE),
                      PyDict(<< <<"id", PyStr(Format(table, id))>> >>),
                      PyDict(<< <<"id", RecordID(table, id, FALSE)>> >>),
                      PyDict(<< <<"table", PyStr(table)>>, <<"id", PyStr(id)>> >>),
                      PyDict(<< <<"id", PyStr(id)>>, <<"table", PyStr(table)>> >>),
                      PyStr(Format(table, id)) }
                OtherRefs ==
                    { PyStr(<<>>), PyDict(<<>>),
                      PyDict(<< <<"tb", PyStr(<<"d", "o", "c">>)>> >>),
                      [shape |-> "object", text |-> <<"x">>] }
            IN  {PyNone} \cup OtherRefs
                    \cup UNION {RecordRefs(t, i) : t \in Tables, i \in Keys}
    IN
    /\ val \in {Some(v) : v \in RecordInputs}
    /\ chat_id = None /\ graph_id = None /\ graph_again = None
    /\ ChatOff
    /\ TranslatorOff
    /\ GraphOff
    /\ ToolsOff
    /\ ConcurrentOff
    /\ IngestOff

\* chat.py: _record_to_id(val)
ChatNormalize ==
    /\ chat_id = None
    /\ chat_id' = Some(chat_record_to_id(Val(val)))
    /\ UNCHANGED <<val, graph_id, graph_again>>

\* graph.py: _record_to_id(val)
GraphNormalize ==
    /\ graph_id = None
    /\ graph_id' = Some(_record_to_id(Val(val)))
    /\ UNCHANGED <<val, chat_id, graph_again>>

\* graph.py: _record_to_id(_record_to_id(val))
GraphNormalizeAgain ==
    /\ IsSome(graph_id) /\ graph_again = None
    /\ graph_again' = Some(_record_to_id(PyStr(Val(graph_id))))
    /\ UNCHANGED <<val, chat_id, graph_id>>

NormalizeNext ==
    \/ ChatNormalize /\ UNCHANGED <<chatVars, translatorVars, graphVars, toolVars, concurrentVars, ingestVars>>
    \/ GraphNormalize /\ UNCHANGED <<chatVars, translatorVars, graphVars, toolVars, concurrentVars, ingestVars>>
    \/ GraphNormalizeAgain /\ UNCHANGED <<chatVars, translatorVars, graphVars, toolVars, concurrentVars, ingestVars>>

SpecNormalize == NormalizeInit /\ [][NormalizeNext]_vars

\* ============================================== the recommendation engine
MaxRecommendations == 5
SearchLimit == 30

DocTable == <<"d", "o", "c">>
ConceptTable == <<"c", "o", "n", "c", "e", "p", "t">>
DocId(key) == Format(DocTable, <<key>>)
ConceptId(key) == Format(ConceptTable, <<key>>)
DocPrefix == Format(DocTable, <<>>)

\* node_id.startswith(prefix)
StartsWith(s, prefix) ==
    Len(s) >= Len(prefix) /\ SubSeq(s, 1, Len(prefix)) = prefix

\* the shapes in which a client returns record ids and relation endpoints
ClientShapes == {"str", "record", "dict_id", "dict_table_id"}

\* the reference to record key of table as a client of that shape returns it
Ref(shape, table, key) ==
    IF shape = "str" THEN PyStr(Format(table, <<key>>))
    ELSE IF shape = "record" THEN RecordID(table, <<key>>, FALSE)
    ELSE IF shape = "dict_id"
    THEN PyDict(<< <<"id", PyStr(Format(table, <<key>>))>> >>)
    ELSE PyDict(<< <<"table", PyStr(table)>>, <<"id", PyStr(<<key>>)>> >>)

\* a record's own id: a RecordID object or a string
RecId(shape, table, key) ==
    IF shape = "record" THEN RecordID(table, <<key>>, FALSE)
    ELSE PyStr(Format(table, <<key>>))

\* rows of the doc and concept tables (the fields the endpoint reads)
Doc(id, embedding) == [id |-> id, embedding |-> embedding]
ChunkRow(source, embedding) == [source |-> source, embedding |-> embedding]
Mention(doc_ref, concept_ref) == [in |-> doc_ref, out |-> concept_ref]

\* GraphNode(id=str(node_data.get("id", "")), type=node_type, ...)
format_node(node_data, node_type) ==
    [id |-> Str(node_data.id), type |-> node_type]

\* db.get_doc(doc_id): conn.select(doc_id), the record with that id, of
\* whatever table, or nothing
get_doc(d, doc_id) ==
    LET rows == d.docs \o d.concepts
        hits == {i \in 1..Len(rows) : Str(rows[i].id) = doc_id}
    IN  IF hits = {} THEN None ELSE Some(rows[CHOOSE i \in hits : TRUE])

\* db.get_concept(concept_id): the same conn.select
get_concept(d, concept_id) == get_doc(d, concept_id)

\* db.get_chunks_by_doc(doc_id): the chunks whose normalized source is doc_id
get_chunks_by_doc(d, doc_id) ==
    LET OfDoc(c) == _record_to_id(c.source) = doc_id
    IN  SelectSeq(d.chunks, OfDoc)

RECURSIVE ColumnSum(_, _)
\* avg[i] += float(v) over the chunk embeddings
ColumnSum(embs, i) ==
    IF embs = <<>> THEN 0 ELSE Head(embs)[i] + ColumnSum(Tail(embs), i)

\* the embedding is taken from the document's text when none is stored
DocEmbeddingOfContent(d, node_data, doc_id) ==
    IF node_data.embedding # <<>> THEN node_data.embedding ELSE <<1, 1>>

\* the document's embedding: the stored one, else the average of its chunks'
\* embeddings, else none. A stored embedding is a vector of numbers; an
\* averaged one keeps each component as the pair <<sum, count>> (the
\* quotient sum / count)
DocEmbedding(d, node_data, doc_id) ==
    IF node_data.embedding # <<>> THEN node_data.embedding
    ELSE LET HasEmbedding(c) == c.embedding # <<>>
             chunk_embs == [i \in 1..Len(SelectSeq(get_chunks_by_doc(d, doc_id), HasEmbedding)) |->
                               SelectSeq(get_chunks_by_doc(d, doc_id), HasEmbedding)[i].embedding]
         IN  IF chunk_embs # <<>>
             THEN [i \in 1..Len(chunk_embs[1]) |->
                      <<ColumnSum(chunk_embs, i), Len(chunk_embs)>>]
             ELSE <<>>

RECURSIVE GroupByDocKeepsLast(_, _)
\* a later hit of a document replaces the earlier one
GroupByDocKeepsLast(rows, doc_map) ==
    IF rows = <<>> THEN doc_map
    ELSE LET item == Head(rows)
         IN  IF IsNone(item.doc) THEN GroupByDocKeepsLast(Tail(rows), doc_map)
             ELSE LET at == {i \in 1..Len(doc_map) :
                                Str(doc_map[i][1].id) = Str(Val(item.doc).id)}
                  IN  IF at = {}
                      THEN GroupByDocKeepsLast(Tail(rows),
                               Append(doc_map, <<Val(item.doc), item.similarity>>))
                      ELSE GroupByDocKeepsLast(Tail(rows),
                               [doc_map EXCEPT ![CHOOSE i \in at : TRUE] =
                                   <<Val(item.doc), item.similarity>>])

RECURSIVE GroupByDoc(_, _)
\* doc_map: one <<doc, similarity>> per doc id, the highest similarity, in
\* the order the ids were first met
GroupByDoc(rows, doc_map) ==
    IF rows = <<>> THEN doc_map
    ELSE LET item == Head(rows)
         IN  IF IsNone(item.doc) THEN GroupByDoc(Tail(rows), doc_map)
             ELSE LET doc_id == Str(Val(item.doc).id)
                      at == {i \in 1..Len(doc_map) : Str(doc_map[i][1].id) = doc_id}
                  IN  IF at = {}
                      THEN GroupByDoc(Tail(rows),
                               Append(doc_map, <<Val(item.doc), item.similarity>>))
                      ELSE LET i == CHOOSE i \in at : TRUE
                           IN  IF item.similarity > doc_map[i][2]
                               THEN GroupByDoc(Tail(rows),
                                        [doc_map EXCEPT ![i] = <<Val(item.doc), item.similarity>>])
                               ELSE GroupByDoc(Tail(rows), doc_map)

\* sorted(doc_map.values(), key=lambda x: x[1], reverse=True): stable
SortedBySimilarity(pairs) ==
    LET Rank(i) == Cardinality({j \in 1..Len(pairs) :
                       \/ pairs[j][2] > pairs[i][2]
                       \/ pairs[j][2] = pairs[i][2] /\ j < i}) + 1
    IN  [k \in 1..Len(pairs) |-> pairs[CHOOSE i \in 1..Len(pairs) : Rank(i) = k]]

\* db.vector_search_docs(embedding, limit) on the rows the query returned
vector_search_docs(rows, limit) ==
    LET sorted_docs == SortedBySimilarity(GroupByDoc(rows, <<>>))
    IN  SubSeq(sorted_docs, 1, IF Len(sorted_docs) < limit THEN Len(sorted_docs) ELSE limit)

\* the loops' state: the ids seen and the recommendations so far
LoopState(seen, recommendations) ==
    [seen |-> seen, recommendations |-> recommendations]

RECURSIVE ConceptVectorLoop(_, _)
\* concept branch: for doc, score in similar_docs
ConceptVectorLoop(similar_docs, st) ==
    IF similar_docs = <<>> THEN st
    ELSE LET doc == Head(similar_docs)[1]
             doc_id_str == Str(doc.id)
         IN  IF doc_id_str \in st.seen
             THEN ConceptVectorLoop(Tail(similar_docs), st)
             ELSE LET st1 == LoopState(st.seen \cup {doc_id_str},
                                 Append(st.recommendations, format_node(doc, "doc")))
                  IN  IF Len(st1.recommendations) >= MaxRecommendations THEN st1
                      ELSE ConceptVectorLoop(Tail(similar_docs), st1)

\* the source document is not skipped
DocVectorLoopKeepsSource(similar_docs, source_id, st) ==
    ConceptVectorLoop(similar_docs, st)

RECURSIVE DocVectorLoop(_, _, _)
\* doc branch: for doc, score in similar_docs
DocVectorLoop(similar_docs, source_id, st) ==
    IF similar_docs = <<>> THEN st
    ELSE LET doc == Head(similar_docs)[1]
             doc_id_str == Str(doc.id)
         IN  IF doc_id_str = source_id \/ doc_id_str \in st.seen
             THEN DocVectorLoop(Tail(similar_docs), source_id, st)
             ELSE LET st1 == LoopState(st.seen \cup {doc_id_str},
                                 Append(st.recommendations, format_node(doc, "doc")))
                  IN  IF Len(st1.recommendations) >= MaxRecommendations THEN st1
                      ELSE DocVectorLoop(Tail(similar_docs), source_id, st1)

RECURSIVE MentionLoop(_, _, _, _, _)
\* for m in mentions: a document that mentions concept_id and is not the
\* source and was not seen is appended, until there are five
MentionLoop(d, ms, concept_id, source_id, st) ==
    IF ms = <<>> THEN st
    ELSE LET m == Head(ms)
             candidate_doc_id == _record_to_id(m.in)
         IN  IF /\ _record_to_id(m.out) = concept_id
                /\ candidate_doc_id # <<>>
                /\ candidate_doc_id # source_id
                /\ candidate_doc_id \notin st.seen
                /\ IsSome(get_doc(d, candidate_doc_id))
             THEN LET st1 == LoopState(st.seen \cup {candidate_doc_id},
                                 Append(st.recommendations,
                                     format_node(Val(get_doc(d, candidate_doc_id)), "doc")))
                  IN  IF Len(st1.recommendations) >= MaxRecommendations THEN st1
                      ELSE MentionLoop(d, Tail(ms), concept_id, source_id, st1)
             ELSE MentionLoop(d, Tail(ms), concept_id, source_id, st)

RECURSIVE ConceptsLoop(_, _, _, _)
\* for concept_id in concepts
ConceptsLoop(d, concepts, source_id, st) ==
    IF concepts = <<>> THEN st
    ELSE LET st1 == MentionLoop(d, d.mentions, Head(concepts), source_id, st)
         IN  IF Len(st1.recommendations) >= MaxRecommendations THEN st1
             ELSE ConceptsLoop(d, Tail(concepts), source_id, st1)

\* the concepts the document mentions, in the order of the mentions
MentionedConcepts(d, doc_id) ==
    LET OfDoc(m) == _record_to_id(m.in) = doc_id
        mine == SelectSeq(d.mentions, OfDoc)
    IN  [i \in 1..Len(mine) |-> _record_to_id(mine[i].out)]

\* the fallback documents are put before the vector hits
DocFallbackPrepends(d, doc_id, st) ==
    LET found == ConceptsLoop(d, MentionedConcepts(d, doc_id), doc_id,
                     LoopState(st.seen, <<>>))
        room == MaxRecommendations - Len(st.recommendations)
        kept == SubSeq(found.recommendations, 1,
                    IF Len(found.recommendations) < room
                    THEN Len(found.recommendations) ELSE room)
    IN  LoopState(found.seen, kept \o st.recommendations)

\* doc branch: the mention walk from the state the vector loop left
DocFallback(d, doc_id, st) ==
    ConceptsLoop(d, MentionedConcepts(d, doc_id), doc_id, st)

\* concept branch: the documents that mention the concept; the concept id
\* is no candidate's id, and an empty candidate is skipped
ConceptFallback(d, concept_id, recommendations) ==
    LET seen == {recommendations[i].id : i \in 1..Len(recommendations)}
    IN  MentionLoop(d, d.mentions, concept_id, <<>>,
            LoopState(seen, recommendations))

NodeDetail(node, recommendations) ==
    [status |-> 200, node |-> Some(node), recommendations |-> recommendations]

HTTPException(status_code) ==
    [status |-> status_code, node |-> None, recommendations |-> <<>>]

\* the answer and the number of vector searches it took
Answer(resp, searches) == [response |-> resp, searches |-> searches]

\* the doc branch of get_node_detail
DocDetail(d, k, id) ==
    LET node_data == get_doc(d, id)
    IN  IF IsNone(node_data) THEN Answer(HTTPException(404), 0)
        ELSE
        LET node == format_node(Val(node_data), "doc")
            embedding == DocEmbedding(d, Val(node_data), id)
        IN  IF embedding # <<>>
            THEN LET similar_docs ==
                         IF k.raises THEN <<>>
                         ELSE vector_search_docs(k.rows, SearchLimit)
                     st == DocVectorLoop(similar_docs, id, LoopState({}, <<>>))
                 IN  IF Len(st.recommendations) < MaxRecommendations
                     THEN Answer(NodeDetail(node,
                              DocFallback(d, id, st).recommendations), 1)
                     ELSE Answer(NodeDetail(node, st.recommendations), 1)
            ELSE Answer(NodeDetail(node,
                     DocFallback(d, id, LoopState({}, <<>>)).recommendations), 0)

\* the concept branch of get_node_detail
ConceptDetail(d, k, id) ==
    LET node_data == get_concept(d, id)
    IN  IF IsNone(node_data) THEN Answer(HTTPException(404), 0)
        ELSE
        LET node == format_node(Val(node_data), "concept")
            embedding == Val(node_data).embedding
        IN  IF embedding # <<>> /\ k.raises
            THEN Answer(HTTPException(500), 1)
            ELSE
            LET recommendations ==
                    IF embedding # <<>>
                    THEN ConceptVectorLoop(vector_search_docs(k.rows, SearchLimit),
                             LoopState({}, <<>>)).recommendations
                    ELSE <<>>
                searches == IF embedding # <<>> THEN 1 ELSE 0
            IN  IF Len(recommendations) < MaxRecommendations
                THEN Answer(NodeDetail(node,
                         ConceptFallback(d, id, recommendations).recommendations),
                         searches)
                ELSE Answer(NodeDetail(node, recommendations), searches)

get_node_detail(d, k, id) ==
    IF StartsWith(id, DocPrefix) THEN DocDetail(d, k, id)
    ELSE IF StartsWith(id, Format(ConceptTable, <<>>)) THEN ConceptDetail(d, k, id)
    ELSE Answer(HTTPException(400), 0)

\* ------------------------------------------------- the stores and requests
\* what the nearest-neighbour query gives: it raises, or returns rows (chunk
\* hits with their documents) by decreasing similarity; a chunk whose
\* document is gone has no doc
KnnResults(shape) ==
    LET D(key, e) == Some(Doc(RecId(shape, DocTable, key), e))
        Row(doc, similarity) == [doc |-> doc, similarity |-> similarity]
        AllRows ==
            << Row(D("b", <<2, 0>>), 9), Row(D("a", <<1, 0>>), 8),
               Row(D("b", <<2, 0>>), 7), Row(None, 6),
               Row(D("c", <<>>), 5), Row(D("d", <<>>), 4),
               Row(D("e", <<>>), 3), Row(D("f", <<>>), 2),
               Row(D("g", <<>>), 1) >>
    IN  {[raises |-> TRUE, rows |-> <<>>]}
            \cup {[raises |-> FALSE, rows |-> SubSeq(AllRows, 1, n)] :
                     n \in 0..Len(AllRows)}

\* the mentions edges (document, concept) in the order the store returns
\* them: the first n of a list, the same reversed, and the list without the
\* edges of document a
MentionLists(shape) ==
    LET AllMentions ==
            << <<"a", "x">>, <<"b", "x">>, <<"a", "y">>, <<"h", "y">>,
               <<"c", "y">>, <<"b", "y">>, <<"a", "x">>, <<"g", "x">>,
               <<"f", "x">>, <<"e", "y">> >>
        M(e) == Mention(Ref(shape, DocTable, e[1]), Ref(shape, ConceptTable, e[2]))
        all == [i \in 1..Len(AllMentions) |-> M(AllMentions[i])]
        Reverse(xs) == [i \in 1..Len(xs) |-> xs[Len(xs) + 1 - i]]
        NotOfA(m) == m.in # Ref(shape, DocTable, "a")
    IN  {SubSeq(all, 1, n) : n \in 0..Len(all)}
            \cup {Reverse(SubSeq(all, 1, n)) : n \in 2..Len(all)}
            \cup {SelectSeq(all, NotOfA)}

\* the store: documents a..g (h is mentioned but was deleted), concepts x, y,
\* the mentions edges and the related edges between concepts
Store(shape, kind, mentions, related) ==
    LET stored == IF kind = "stored" THEN <<1, 0>> ELSE <<>>
    IN  [docs |-> <<Doc(RecId(shape, DocTable, "a"), stored)>>
                    \o [i \in 1..6 |->
                           Doc(RecId(shape, DocTable,
                                   <<"b", "c", "d", "e", "f", "g">>[i]),
                               <<2, 0>>)],
         concepts |-> <<Doc(RecId(shape, ConceptTable, "x"), stored),
                        Doc(RecId(shape, ConceptTable, "y"), <<>>)>>,
         chunks |->
             <<ChunkRow(Ref(shape, DocTable, "b"), <<2, 0>>)>>
             \o (IF kind = "chunks"
                 THEN <<ChunkRow(Ref(shape, DocTable, "a"), <<1, 0>>),
                        ChunkRow(Ref(shape, DocTable, "a"), <<>>),
                        ChunkRow(Ref(shape, DocTable, "a"), <<0, 1>>)>>
                 ELSE IF kind = "bare_chunks"
                 THEN <<ChunkRow(Ref(shape, DocTable, "a"), <<>>)>>
                 ELSE <<>>),
         mentions |-> mentions,
         related |-> related]

GraphInit ==
    LET
        NodeIds == {DocId("a"), ConceptId("x"), DocId("z"), ConceptId("z"),
             <<"c", "h", "u", "n", "k", ":", "a">>}
        \* how the source's embedding is stored: on the record, only on its chunks,
        \* on chunks without embeddings, or nowhere
        EmbeddingKinds == {"stored", "chunks", "bare_chunks", "none"}
    IN
    /\ \E shape \in ClientShapes :
           /\ db \in {Some(Store(shape, kind, ms, <<>>)) :
                         kind \in EmbeddingKinds, ms \in MentionLists(shape)}
           /\ knn \in {Some(k) : k \in KnnResults(shape)}
    /\ node_id \in {Some(id) : id \in NodeIds}
    /\ response = None
    /\ vector_searches = 0
    /\ db_calls = <<>>
    /\ db_result = None
    /\ ChatOff
    /\ TranslatorOff
    /\ NormalizerOff
    /\ ToolsOff
    /\ ConcurrentOff
    /\ IngestOff

\* GET /api/graph/node/{node_id}
GetNodeDetail ==
    /\ response = None
    /\ LET answer == get_node_detail(Val(db), Val(knn), Val(node_id))
       IN  /\ response' = Some(answer.response)
           /\ vector_searches' = answer.searches
    /\ UNCHANGED <<db, knn, node_id, db_calls, db_result>>

GraphNext ==
    GetNodeDetail /\ UNCHANGED <<chatVars, translatorVars, normalizerVars, toolVars, concurrentVars, ingestVars>>

SpecGraph == GraphInit /\ [][GraphNext]_vars

\* ====================================================== the Database object
MaxCalls == 2

\* type::thing(table, id) for an id "table:key", or "key" of default_table
\* (id.split(":", 1))
Thing(id, default_table) ==
    LET colons == {i \in 1..Len(id) : id[i] = ":"}
        c == CHOOSE i \in colons : \A j \in colons : i <= j
    IN  IF colons = {} THEN RecordID(default_table, id, FALSE)
        ELSE RecordID(SubSeq(id, 1, c - 1), SubSeq(id, c + 1, Len(id)), FALSE)

\* what a call on the Database object did: the store afterwards and the
\* value returned
Done(store, value) == [store |-> store, value |-> value]

\* create_mention and create_related on the edges of their table: look the
\* edge up (the lookup may raise, which is swallowed), return False if it is
\* there, else RELATE and return True
Relate(edges, in_id, out_id, in_table, lookup_raises) ==
    LET exists ==
            /\ ~lookup_raises
            /\ \E i \in 1..Len(edges) :
                   /\ edges[i].in = Thing(in_id, in_table)
                   /\ edges[i].out = Thing(out_id, ConceptTable)
    IN  IF exists THEN Done(edges, FALSE)
        ELSE Done(Append(edges, Mention(Thing(in_id, in_table),
                                  Thing(out_id, ConceptTable))), TRUE)

\* Database.create_mention(doc_id, concept_id); conn is None when d is
create_mention(d, doc_id, concept_id, lookup_raises) ==
    IF IsNone(d) THEN Done(d, FALSE)
    ELSE LET did == Relate(Val(d).mentions, doc_id, concept_id, DocTable,
                        lookup_raises)
         IN  Done(Some([Val(d) EXCEPT !.mentions = did.store]), did.value)

\* Database.create_related(concept1_id, concept2_id)
create_related(d, concept1_id, concept2_id, lookup_raises) ==
    IF IsNone(d) THEN Done(d, FALSE)
    ELSE LET did == Relate(Val(d).related, concept1_id, concept2_id,
                        ConceptTable, lookup_raises)
         IN  Done(Some([Val(d) EXCEPT !.related = did.store]), did.value)

\* Database.delete_doc(doc_id): the chunks of the document, its mentions
\* edges (either deletion may raise, which is swallowed), then the document
delete_doc(d, doc_id, chunks_raises, mentions_raises) ==
    IF IsNone(d) THEN Done(d, None)
    ELSE LET thing == Thing(doc_id, DocTable)
             OtherSource(c) == c.source # thing
             OtherIn(m) == m.in # thing
             Other(row) == Str(row.id) # doc_id
         IN  Done(Some([Val(d) EXCEPT
                      !.chunks = IF chunks_raises THEN @ ELSE SelectSeq(@, OtherSource),
                      !.mentions = IF mentions_raises THEN @ ELSE SelectSeq(@, OtherIn),
                      !.docs = SelectSeq(@, Other),
                      !.concepts = SelectSeq(@, Other)]),
                  None)

\* a connected store of record objects or no connection, and no call yet
DatabaseInit ==
    /\ db \in {None,
                Some(Store("record", "chunks",
                     <<Mention(Ref("record", DocTable, "a"),
                           Ref("record", ConceptTable, "x")),
                       Mention(Ref("record", DocTable, "b"),
                           Ref("record", ConceptTable, "x"))>>,
                     <<Mention(Ref("record", ConceptTable, "x"),
                           Ref("record", ConceptTable, "y"))>>))}
    /\ knn = None /\ node_id = None /\ response = None /\ vector_searches = 0
    /\ db_calls = <<>>
    /\ db_result = None
    /\ ChatOff
    /\ TranslatorOff
    /\ NormalizerOff
    /\ ToolsOff
    /\ ConcurrentOff
    /\ IngestOff

\* one more call on the Database object
Call(op, args, did) ==
    /\ Len(db_calls) < MaxCalls
    /\ db_calls' = Append(db_calls, [op |-> op, args |-> args])
    /\ db' = did.store
    /\ db_result' = Some(did.value)
    /\ UNCHANGED <<node_id, response, vector_searches>>

CreateMention ==
    \E doc_key \in {"a", "b"}, concept_key \in {"x", "y"}, lookup_raises \in BOOLEAN :
        /\ Call("create_mention", <<DocId(doc_key), ConceptId(concept_key)>>,
                create_mention(db, DocId(doc_key), ConceptId(concept_key),
                    lookup_raises))
        /\ UNCHANGED knn

CreateRelated ==
    \E k1 \in {"x", "y"}, k2 \in {"x", "y"}, lookup_raises \in BOOLEAN :
        /\ Call("create_related", <<ConceptId(k1), ConceptId(k2)>>,
                create_related(db, ConceptId(k1), ConceptId(k2), lookup_raises))
        /\ UNCHANGED knn

DeleteDoc ==
    \E doc_id \in {DocId("a"), DocId("b"), DocId("z"), <<"a">>},
       chunks_raises \in BOOLEAN, mentions_raises \in BOOLEAN :
        /\ Call("delete_doc", <<doc_id>>,
                delete_doc(db, doc_id, chunks_raises, mentions_raises))
        /\ UNCHANGED knn

\* Database.vector_search_docs(embedding, limit), k being what the
\* nearest-neighbour query gives
VectorSearchDocs ==
    \E limit \in {1, 3, 30}, k \in KnnResults("record") :
        /\ ~k.raises
        /\ knn' = Some(k)
        /\ Call("vector_search_docs", <<limit>>,
                Done(db, IF IsNone(db) THEN <<>>
                         ELSE vector_search_docs(k.rows, limit)))

DatabaseNext ==
    \/ CreateMention
           /\ UNCHANGED <<chatVars, translatorVars, normalizerVars, toolVars, concurrentVars, ingestVars>>
    \/ CreateRelated
           /\ UNCHANGED <<chatVars, translatorVars, normalizerVars, toolVars, concurrentVars, ingestVars>>
    \/ DeleteDoc
           /\ UNCHANGED <<chatVars, translatorVars, normalizerVars, toolVars, concurrentVars, ingestVars>>
    \/ VectorSearchDocs
           /\ UNCHANGED <<chatVars, translatorVars, normalizerVars, toolVars, concurrentVars, ingestVars>>

SpecDatabase == DatabaseInit /\ [][DatabaseNext]_vars

\* ==================================================== the retrieval tools
\* what a tool call did: it raised, or returned its text, kept here as the
\* sequence of the entries the text is formatted from
ToolResult(has_raised, text) == [raised |-> has_raised, text |-> text]

\* [x for x in xs if not (x in seen or seen.add(x))]
Dedup(xs) ==
    LET IsFirst(i) == \A j \in 1..(i - 1) : xs[j] # xs[i]
        idx == {i \in 1..Len(xs) : IsFirst(i)}
    IN  [k \in 1..Cardinality(idx) |->
            xs[CHOOSE i \in idx : Cardinality({j \in idx : j <= i}) = k]]

\* search_knowledge_graph(query): the five best chunks with their sources,
\* the three best concepts
search_knowledge_graph(d, query, down) ==
    IF down \in {"store", "embedding"} THEN ToolResult(TRUE, <<>>)
    ELSE LET chunk_results ==
                 SubSeq(d.chunks, 1, IF Len(d.chunks) < 5 THEN Len(d.chunks) ELSE 5)
             concept_results ==
                 SubSeq(d.concepts, 1, IF Len(d.concepts) < 3 THEN Len(d.concepts) ELSE 3)
             SourceId(c) ==
                 IF chat_record_to_id(c.source) # <<>> THEN chat_record_to_id(c.source)
                 ELSE <<"u", "n", "k", "n", "o", "w", "n">>
         IN  ToolResult(FALSE,
                 [i \in 1..Len(chunk_results) |->
                     [entry |-> "content", id |-> SourceId(chunk_results[i]),
                      found |-> IsSome(get_doc(d, SourceId(chunk_results[i])))]]
                 \o [i \in 1..Len(concept_results) |->
                        [entry |-> "concept", id |-> Str(concept_results[i].id),
                         found |-> TRUE]])

\* get_document_details(doc_id): the document and the concepts it mentions
get_document_details(d, doc_id, down) ==
    IF down = "store" THEN ToolResult(TRUE, <<>>)
    ELSE IF IsNone(get_doc(d, doc_id))
    THEN ToolResult(FALSE, <<[entry |-> "not found", id |-> doc_id, found |-> FALSE]>>)
    ELSE LET all == Dedup(MentionedConcepts(d, doc_id))
             connected_concepts == SubSeq(all, 1, IF Len(all) < 20 THEN Len(all) ELSE 20)
         IN  ToolResult(FALSE,
                 <<[entry |-> "document", id |-> Str(Val(get_doc(d, doc_id)).id),
                    found |-> TRUE]>>
                 \o [i \in 1..Len(connected_concepts) |->
                        [entry |-> "concept", id |-> connected_concepts[i],
                         found |-> IsSome(get_concept(d, connected_concepts[i]))]])

\* only the edges that leave the concept are followed
NeighborsOutgoing(d, concept_id) ==
    LET Leaves(r) ==
            /\ chat_record_to_id(r.in) = concept_id
            /\ chat_record_to_id(r.out) # concept_id
        leaving == SelectSeq(d.related, Leaves)
    IN  Dedup([i \in 1..Len(leaving) |-> chat_record_to_id(leaving[i].out)])

\* the neighbours of a concept over db.get_all_related(): the other endpoint
\* of each edge that has the concept at one end, deduplicated
Neighbors(d, concept_id) ==
    LET Touches(r) ==
            (chat_record_to_id(r.in) = concept_id)
                # (chat_record_to_id(r.out) = concept_id)
        touching == SelectSeq(d.related, Touches)
    IN  Dedup([i \in 1..Len(touching) |->
                  IF chat_record_to_id(touching[i].in) = concept_id
                  THEN chat_record_to_id(touching[i].out)
                  ELSE chat_record_to_id(touching[i].in)])

\* get_concept_details(concept_id): the concept, the documents that mention
\* it and its neighbours over related edges in either direction
get_concept_details(d, concept_id, down) ==
    IF down = "store" THEN ToolResult(TRUE, <<>>)
    ELSE IF IsNone(get_concept(d, concept_id))
    THEN ToolResult(FALSE, <<[entry |-> "not found", id |-> concept_id, found |-> FALSE]>>)
    ELSE LET Mentions(m) == chat_record_to_id(m.out) = concept_id
             mentioning == SelectSeq(d.mentions, Mentions)
             docs == [i \in 1..(IF Len(mentioning) < 20 THEN Len(mentioning) ELSE 20) |->
                         chat_record_to_id(mentioning[i].in)]
             Exists(doc_id) == IsSome(get_doc(d, doc_id))
             all == Neighbors(d, concept_id)
             neighbors == SubSeq(all, 1, IF Len(all) < 20 THEN Len(all) ELSE 20)
         IN  ToolResult(FALSE,
                 <<[entry |-> "concept", id |-> concept_id, found |-> TRUE]>>
                 \o [i \in 1..Len(SelectSeq(docs, Exists)) |->
                        [entry |-> "document", id |-> SelectSeq(docs, Exists)[i],
                         found |-> TRUE]]
                 \o [i \in 1..Len(neighbors) |->
                        [entry |-> "neighbor", id |-> neighbors[i],
                         found |-> IsSome(get_concept(d, neighbors[i]))]])

\* an exception of the request or of the decoding leaves the tool
TavilyOutcomeUncaught(entry, detail, posted) ==
    [result |-> ToolResult(entry = "error",
                    <<[entry |-> entry, id |-> detail, found |-> entry = "response"]>>),
     requests |-> posted]

\* what tavily_search did: the text it returned and the requests it made
TavilyOutcome(entry, detail, posted) ==
    [result |-> ToolResult(FALSE,
                    <<[entry |-> entry, id |-> detail, found |-> entry = "response"]>>),
     requests |-> posted]

\* tavily_search(query)
tavily_search(s, query, up) ==
    IF ~s.tavily_enabled \/ OrEmpty(s.tavily_api_key) = <<>>
           \/ OrEmpty(s.tavily_host) = <<>>
    THEN TavilyOutcome("not configured", <<>>, <<>>)
    ELSE LET host == Val(s.tavily_host)
             \* host.rstrip('/')
             kept == {i \in 1..Len(host) : host[i] # "/"}
             stripped == SubSeq(host, 1, IF kept = {} THEN 0
                           ELSE CHOOSE i \in kept : \A j \in kept : j <= i)
             url == stripped \o <<"/", "s", "e", "a", "r", "c", "h">>
         IN  IF up.raises THEN TavilyOutcome("error", up.text, <<url>>)
             ELSE IF up.status_code # <<"2", "0", "0">>
             THEN TavilyOutcome("failed",
                      up.status_code \o <<" ", "-", " ">> \o up.text, <<url>>)
             ELSE IF IsNone(Loads(up.text))
             THEN TavilyOutcome("error", <<"J">>, <<url>>)
             ELSE TavilyOutcome("response", Dumps(Val(Loads(up.text))), <<url>>)

ToolsInit ==
    LET
        \* how the search API answers client.post: the request raises (no
        \* connection, timeout), or a response with a status code and a body
        Upstreams == LET HttpAnswer(request_raises, status_code, text) ==
                    [raises |-> request_raises, status_code |-> status_code, text |-> text]
            IN  { HttpAnswer(TRUE, <<>>, <<"E">>),
                  HttpAnswer(FALSE, <<"5", "0", "0">>, <<"o", "o", "p", "s">>),
                  HttpAnswer(FALSE, <<"2", "0", "0">>, <<"<", "h", "t", "m", "l", ">">>),
                  HttpAnswer(FALSE, <<"2", "0", "0">>, <<"{", " ", "}">>),
                  HttpAnswer(FALSE, <<"2", "0", "0">>,
                             <<"{", Quote, "q", Quote, ":", Quote, "x", Quote, "}">>) }
        \* the values of settings.tavily_enabled, tavily_api_key and tavily_host
        TavilySettings == [tavily_enabled : BOOLEAN,
             tavily_api_key : {None, Some(<<>>), Some(<<"k">>)},
             tavily_host : {None, Some(<<>>), Some(<<"h">>), Some(<<"h", "/">>)}]
        \* the tool calls the agent makes
        ToolCalls == { [name |-> "search_knowledge_graph", arg |-> <<"q">>],
              [name |-> "get_document_details", arg |-> DocId("a")],
              [name |-> "get_document_details", arg |-> DocId("z")],
              [name |-> "get_concept_details", arg |-> ConceptId("x")],
              [name |-> "get_concept_details", arg |-> ConceptId("z")],
              [name |-> "tavily_search", arg |-> <<"q">>] }
    IN
    /\ tool_call \in {Some(c) : c \in ToolCalls}
    /\ tool_result = None
    /\ requests = <<>>
    /\ IF Val(tool_call).name = "tavily_search"
       THEN /\ failing = "none"
            /\ db = None
            /\ settings \in {Some(s) : s \in TavilySettings}
            /\ upstream \in {Some(u) : u \in Upstreams}
       ELSE /\ failing \in {"none", "store", "embedding"}
            /\ settings = None
            /\ upstream = None
            /\ \E shape \in ClientShapes :
                   LET R(a, b) == Mention(Ref(shape, ConceptTable, a),
                                      Ref(shape, ConceptTable, b))
                       others == <<"a", "b", "c", "d", "e", "f", "g", "h", "i", "j",
                                   "k", "l", "m", "n", "o", "p", "q", "r", "s", "t",
                                   "u">>
                       Fan == [i \in 1..Len(others) |->
                                  IF i % 2 = 1 THEN R("x", others[i])
                                  ELSE R(others[i], "x")]
                   IN  db \in {Some(Store(shape, "stored", ms, rs)) :
                                  ms \in MentionLists(shape),
                                  rs \in {<<>>,
                                          <<R("x", "y"), R("y", "x"), R("x", "x")>>,
                                          <<R("w", "x"), R("x", "x"), R("x", "y"),
                                            R("y", "w"), R("x", "w"), R("y", "x")>>,
                                          Fan}}
    /\ knn = None /\ node_id = None /\ response = None /\ vector_searches = 0
    /\ db_calls = <<>> /\ db_result = None
    /\ ChatOff
    /\ TranslatorOff
    /\ NormalizerOff
    /\ ConcurrentOff
    /\ IngestOff

SearchKnowledgeGraph ==
    /\ tool_result = None
    /\ Val(tool_call).name = "search_knowledge_graph"
    /\ tool_result' = Some(search_knowledge_graph(Val(db), Val(tool_call).arg, failing))
    /\ UNCHANGED <<tool_call, failing, settings, upstream, requests>>

GetDocumentDetails ==
    /\ tool_result = None
    /\ Val(tool_call).name = "get_document_details"
    /\ tool_result' = Some(get_document_details(Val(db), Val(tool_call).arg, failing))
    /\ UNCHANGED <<tool_call, failing, settings, upstream, requests>>

GetConceptDetails ==
    /\ tool_result = None
    /\ Val(tool_call).name = "get_concept_details"
    /\ tool_result' = Some(get_concept_details(Val(db), Val(tool_call).arg, failing))
    /\ UNCHANGED <<tool_call, failing, settings, upstream, requests>>

TavilySearch ==
    /\ tool_result = None
    /\ Val(tool_call).name = "tavily_search"
    /\ LET did == tavily_search(Val(settings), Val(tool_call).arg, Val(upstream))
       IN  /\ tool_result' = Some(did.result)
           /\ requests' = requests \o did.requests
    /\ UNCHANGED <<tool_call, failing, settings, upstream>>

ToolsNext ==
    \/ SearchKnowledgeGraph
           /\ UNCHANGED <<chatVars, translatorVars, normalizerVars, graphVars, concurrentVars, ingestVars>>
    \/ GetDocumentDetails
           /\ UNCHANGED <<chatVars, translatorVars, normalizerVars, graphVars, concurrentVars, ingestVars>>
    \/ GetConceptDetails
           /\ UNCHANGED <<chatVars, translatorVars, normalizerVars, graphVars, concurrentVars, ingestVars>>
    \/ TavilySearch
           /\ UNCHANGED <<chatVars, translatorVars, normalizerVars, graphVars, concurrentVars, ingestVars>>

SpecTools == ToolsInit /\ [][ToolsNext]_vars

\* ================================================= concurrent requests
MaxConcurrentEvents == 3

\* new_messages, current_ai_content, current_ai_tool_calls and
\* current_ai_message_id as a call of stream_agent_response creates them
NewLocals ==
    [new_messages |-> <<>>, content |-> <<>>, tool_calls |-> <<>>,
     message_id |-> None]

\* one set of accumulators at module level serves every request
ModuleScope(r) == 1

\* the accumulators are local variables of the generator: one set per call
AccumulatorScope(r) == r

\* the events agent_executor.astream_events may hand over next, a being
\* the agent's aggregate of the running model call. An event has its type,
\* its name, whether its data has the type the handler tests for, and the
\* data.
FeedEvents(a) ==
  LET AgentEvent(type, name, expected, data) ==
          [type |-> type, name |-> name, expected |-> expected, data |-> data]
  IN
    {AgentEvent("on_chat_model_stream", "", TRUE, chunk) :
        chunk \in {Chunk(<<"H">>, <<>>),
                   Chunk(<<>>, <<TcChunk(Some(<<"t", 1>>),
                                    Some("get_document_details"), <<>>)>>)}}
    \cup {AgentEvent("on_chat_model_end", "", TRUE, output) :
             output \in IF a.streamed THEN {StreamedOutput(a)}
                        ELSE UnstreamedOutputs}
    \cup {AgentEvent("on_tool_end", e[1], TRUE, e[2]) : e \in ToolEnds}
    \cup {AgentEvent("on_chat_model_end", "", FALSE, <<>>),
          AgentEvent("on_chain_start", "", FALSE, <<>>)}

\* the body of the async for loop for one event: the accumulators and the
\* number of uuids drawn afterwards, the events yielded, and whether an
\* exception reached the except clause
HandleEvent(loc, n, ev) ==
    IF ev.type = "on_chat_model_stream" /\ ev.expected
    THEN LET mid == EnsureMessageId(loc.message_id, n)
         IN  [locals |-> [new_messages |-> loc.new_messages,
                          content |-> loc.content \o ev.data.content,
                          tool_calls |-> AccumulateToolCalls(loc.tool_calls,
                                             ev.data.tool_call_chunks),
                          message_id |-> mid.id],
              n |-> mid.n,
              events |-> DeltaEvents(mid.id, ev.data.content,
                             loc.content \o ev.data.content),
              ended |-> FALSE]
    ELSE IF ev.type = "on_chat_model_end" /\ ev.expected
    THEN LET built == BuildToolCalls(ev.data.tool_calls, n)
             ai_message ==
                 ChatMessage("assistant", BuildContent(ev.data.content),
                     IF ev.data.tool_calls # <<>> THEN Some(built.calls) ELSE None,
                     None, None)
             reset == ResetAccumulators(loc.content, loc.tool_calls, loc.message_id)
         IN  [locals |-> [new_messages |-> Append(loc.new_messages, ai_message),
                          content |-> reset.content,
                          tool_calls |-> reset.tool_calls,
                          message_id |-> reset.message_id],
              n |-> built.n,
              events |-> <<ChatStreamEvent("message_complete", loc.message_id,
                               None, Some(ai_message), None, None)>>,
              ended |-> FALSE]
    ELSE IF ev.type = "on_tool_end"
    THEN IF ev.data.kind = "other"
         THEN [locals |-> loc, n |-> n, events |-> ErrorEvents(<<>>), ended |-> TRUE]
         ELSE LET c == CorrelateToolCall(loc.new_messages, ev.name, n)
                  tool_message ==
                      ChatMessage("tool",
                          Some(IF ev.data.kind = "none" THEN <<>> ELSE ev.data.content),
                          None, Some(c.id), Some(ev.name))
              IN  [locals |-> [loc EXCEPT !.new_messages = Append(@, tool_message)],
                   n |-> c.n,
                   events |-> <<ChatStreamEvent("message_complete", Some(c.id),
                                    None, Some(tool_message), None, None)>>,
                   ended |-> FALSE]
    ELSE [locals |-> loc, n |-> n, events |-> <<>>, ended |-> FALSE]

\* two requests arrive, each with its messages; the uuids a request draws
\* are fresh values, counted from a base of its own
ConcurrentInit ==
    /\ streams = [r \in 1..2 |->
                     [pc |-> "start",
                      messages |->
                          <<<<UserMsg>>,
                            <<SystemMsg, UserMsg, PriorCall(Frag1 \o Frag2),
                              PriorResult>>>>[r],
                      uuids |-> (r - 1) * (2 * MaxConcurrentEvents + 1),
                      out |-> <<>>, agg |-> NoAggregate]]
    /\ locals = [r \in 1..2 |-> NewLocals]
    /\ alone = [r \in 1..2 |->
                   [locals |-> NewLocals,
                    uuids |-> (r - 1) * (2 * MaxConcurrentEvents + 1),
                    out |-> <<>>]]
    /\ delivered = <<>>
    /\ ChatOff
    /\ TranslatorOff
    /\ NormalizerOff
    /\ GraphOff
    /\ ToolsOff
    /\ IngestOff

\* request r: the generator's first step, which creates its accumulators
StartStream(r) ==
    /\ streams[r].pc = "start"
    /\ streams' = [streams EXCEPT ![r].pc =
                       IF \E i \in 1..Len(streams[r].messages) :
                              ConvertRaises(streams[r].messages[i])
                       THEN "crashed" ELSE "run"]
    /\ locals' = [locals EXCEPT ![AccumulatorScope(r)] = NewLocals]
    /\ UNCHANGED <<alone, delivered>>

\* request r: its agent hands over one event and the loop body handles it
DeliverEvent(r) ==
    /\ streams[r].pc = "run"
    /\ Len(delivered) < MaxConcurrentEvents
    /\ \E ev \in FeedEvents(streams[r].agg) :
           LET key == AccumulatorScope(r)
               did == HandleEvent(locals[key], streams[r].uuids, ev)
               run == HandleEvent(alone[r].locals, alone[r].uuids, ev)
           IN  /\ streams' =
                      [streams EXCEPT
                          ![r].pc = IF did.ended THEN "done" ELSE "run",
                          ![r].uuids = did.n,
                          ![r].out = @ \o did.events,
                          ![r].agg =
                              IF ev.type = "on_chat_model_stream" /\ ev.expected
                              THEN Aggregate(@, ev.data)
                              ELSE IF ev.type = "on_chat_model_end"
                              THEN NoAggregate ELSE @]
               /\ locals' = [locals EXCEPT ![key] = did.locals]
               /\ alone' = [alone EXCEPT ![r] =
                               [locals |-> run.locals, uuids |-> run.n,
                                out |-> @.out \o run.events]]
    /\ delivered' = Append(delivered, r)

\* request r: the loop ends, by the feed being exhausted (round_complete)
\* or by the feed raising (the except clause)
EndStream(r) ==
    /\ streams[r].pc = "run"
    /\ \E feed_raises \in BOOLEAN :
           LET Last(produced) ==
                   IF feed_raises THEN ErrorEvents(<<>>)
                   ELSE <<ChatStreamEvent("round_complete", None, None, None,
                              Some(RoundHistory(streams[r].messages, produced)),
                              None)>>
           IN  /\ streams' =
                      [streams EXCEPT
                          ![r].pc = "done",
                          ![r].out = @ \o Last(locals[AccumulatorScope(r)].new_messages)]
               /\ alone' = [alone EXCEPT
                               ![r].out = @ \o Last(alone[r].locals.new_messages)]
    /\ UNCHANGED <<locals, delivered>>

ConcurrentNext ==
    \/ \E r \in 1..2 : StartStream(r)
           /\ UNCHANGED <<chatVars, translatorVars, normalizerVars, graphVars, toolVars, ingestVars>>
    \/ \E r \in 1..2 : DeliverEvent(r)
           /\ UNCHANGED <<chatVars, translatorVars, normalizerVars, graphVars, toolVars, ingestVars>>
    \/ \E r \in 1..2 : EndStream(r)
           /\ UNCHANGED <<chatVars, translatorVars, normalizerVars, graphVars, toolVars, ingestVars>>

SpecConcurrent == ConcurrentInit /\ [][ConcurrentNext]_vars

\* ------------------------------------------ the ingest and node endpoints
\* what an endpoint answers: a model (200) or an HTTPException; cause is the
\* exception a 500 was made from (the str(e) of its detail)
HttpAnswer(status_code, detail, cause) ==
    [status |-> status_code, detail |-> detail, cause |-> cause]

\* the handlers' "except Exception as e: raise HTTPException(500, ...)"
WrapException(prefix, e) == HttpAnswer(500, prefix, e)

\* POST /api/ingest/parse; io_raises: fetch_url_content or process_file raises
parse_document(request, io_raises) ==
    LET Truthy(o) == IsSome(o) /\ Val(o) # <<>>
        \* os.path.splitext(name)[1].lower(): the text from the last dot on,
        \* unless only dots come before it
        Ext(name) ==
            LET dots == {i \in 1..Len(name) : name[i] = "."}
                last == CHOOSE i \in dots : \A j \in dots : j <= i
                lower(c) == IF c = "P" THEN "p" ELSE IF c = "D" THEN "d"
                            ELSE IF c = "F" THEN "f" ELSE c
            IN  IF dots = {} \/ \A j \in 1..(last - 1) : name[j] = "."
                THEN <<>>
                ELSE [i \in 1..(Len(name) + 1 - last) |->
                         lower(name[last + i - 1])]
        \* base64.b64decode: text whose length is no multiple of four has
        \* incorrect padding
        decode_raises == Len(Val(request.file_content)) % 4 # 0
        given == Truthy(request.file_type)
        ext == Ext(Val(request.file_name))
        file_type ==
            IF given THEN Val(request.file_type)
            ELSE IF ext = <<".", "p", "d", "f">> THEN <<"p", "d", "f">>
            ELSE IF ext \in {<<".", "m", "d">>} THEN <<"m", "d">>
            ELSE IF ext \in {<<".", "h", "t", "m">>} THEN <<"h", "t", "m", "l">>
            ELSE <<"t", "e", "x", "t">>
    IN  IF Truthy(request.url)
        THEN IF io_raises
             THEN WrapException("Error parsing document", "fetch failed")
             ELSE HttpAnswer(200, "ParseResponse", "")
        ELSE IF Truthy(request.file_content) /\ Truthy(request.file_name)
        THEN IF decode_raises
             THEN WrapException("Error parsing document", "Incorrect padding")
             ELSE IF file_type = <<"h", "t", "m", "l">>
             THEN HttpAnswer(200, "ParseResponse", "")
             ELSE IF io_raises
             THEN WrapException("Error parsing document", "process failed")
             ELSE HttpAnswer(200, "ParseResponse", "")
        ELSE \* the HTTPException(400) is raised inside the try
             WrapException("Error parsing document",
                           "Either url or file_content must be provided")

\* POST /api/ingest/upload; io_raises: file.read, process_file,
\* save_upload_file or process_document_pipeline raises
upload_document(request, connect_raises, io_raises) ==
    LET Truthy(o) == IsSome(o) /\ Val(o) # <<>>
    IN  IF connect_raises
        THEN \* db.connect() is outside the try
             HttpAnswer(500, "Internal Server Error", "")
        ELSE IF IsSome(request.file) \/ (Truthy(request.content)
                                            /\ Truthy(request.title))
        THEN IF io_raises
             THEN WrapException("Error processing document", "pipeline failed")
             ELSE HttpAnswer(200, "Document processed successfully", "")
        ELSE \* the HTTPException(400) is raised inside the try
             WrapException("Error processing document",
                           "Either file or (title and content) must be provided")

\* the requests: every field absent, empty or given
IngestInit ==
    LET Texts(ts) == {None, Some(<<>>)} \cup {Some(t) : t \in ts}
        FileNames == {<<"a", ".", "p", "d", "f">>, <<"a", ".", "m", "d">>,
                      <<"a", ".", "h", "t", "m">>, <<"a">>, <<".", "m", "d">>,
                      <<"a", ".", "P", "D", "F">>}
        NodeIds == {DocId("a"), ConceptId("x"), DocId("z"), ConceptId("z"),
                    <<"c", "h", "u", "n", "k", ":", "a">>}
    IN
    /\ \/ http_request \in
              {Some([endpoint |-> "parse", url |-> u, file_content |-> c,
                     file_name |-> n, file_type |-> t]) :
                  u \in Texts({<<"u">>}),
                  c \in Texts({<<"Q", "Q", "=", "=">>, <<"Q">>}),
                  n \in Texts(FileNames),
                  t \in Texts({<<"h", "t", "m", "l">>})}
       \/ http_request \in
              {Some([endpoint |-> "upload", file |-> f, title |-> t,
                     content |-> c, url |-> u]) :
                  f \in {None, Some([filename |-> None]),
                         Some([filename |-> Some(<<"a", ".", "m", "d">>)])},
                  t \in Texts({<<"t">>}), c \in Texts({<<"c">>}),
                  u \in Texts({<<"u">>})}
       \/ http_request \in
              {Some([endpoint |-> "node", node_id |-> id, store |-> kind]) :
                  id \in NodeIds, kind \in {"stored", "none"}}
    /\ http_response = None
    /\ ChatOff
    /\ TranslatorOff
    /\ NormalizerOff
    /\ GraphOff
    /\ ToolsOff
    /\ ConcurrentOff

ParseDocument ==
    /\ http_response = None
    /\ Val(http_request).endpoint = "parse"
    /\ \E io_raises \in BOOLEAN :
           http_response' = Some(parse_document(Val(http_request), io_raises))
    /\ UNCHANGED http_request

UploadDocument ==
    /\ http_response = None
    /\ Val(http_request).endpoint = "upload"
    /\ \E connect_raises \in BOOLEAN, io_raises \in BOOLEAN :
           http_response' = Some(upload_document(Val(http_request),
                                                 connect_raises, io_raises))
    /\ UNCHANGED http_request

\* GET /api/graph/node/{node_id} on a store without edges
NodeDetailRequest ==
    /\ http_response = None
    /\ Val(http_request).endpoint = "node"
    /\ \E k \in KnnResults("record") :
           LET d == Store("record", Val(http_request).store, <<>>, <<>>)
               answer == get_node_detail(d, k, Val(http_request).node_id)
           IN  http_response' =
                   Some(HttpAnswer(answer.response.status, "NodeDetail", ""))
    /\ UNCHANGED http_request

IngestNext ==
    \/ ParseDocument
           /\ UNCHANGED <<chatVars, translatorVars, normalizerVars, graphVars, toolVars, concurrentVars>>
    \/ UploadDocument
           /\ UNCHANGED <<chatVars, translatorVars, normalizerVars, graphVars, toolVars, concurrentVars>>
    \/ NodeDetailRequest
           /\ UNCHANGED <<chatVars, translatorVars, normalizerVars, graphVars, toolVars, concurrentVars>>

SpecIngest == IngestInit /\ [][IngestNext]_vars

\* ============================================================ properties
StreamEnded == pc \in {"done", "crashed"}

IsDelta(e) == e.event = "message_delta"
IsComplete(e) == e.event = "message_complete"
IsAssistantComplete(e) == IsComplete(e) /\ Val(e.message).role = "assistant"
IsToolComplete(e) == IsComplete(e) /\ Val(e.message).role = "tool"

Positions(Test(_)) == {i \in 1..Len(out) : Test(out[i])}

IsError(e) == e.event = "error"
IsRound(e) == e.event = "round_complete"

RECURSIVE DeltasOf(_)
\* the texts of the message_delta events of a stream, in order
DeltasOf(events) ==
    IF events = <<>> THEN <<>>
    ELSE (IF IsDelta(Head(events)) THEN <<Val(Head(events).delta)>> ELSE <<>>)
         \o DeltasOf(Tail(events))

RECURSIVE CompletedOf(_)
\* the messages of the message_complete events of a stream, in order
CompletedOf(events) ==
    IF events = <<>> THEN <<>>
    ELSE (IF IsComplete(Head(events)) THEN <<Val(Head(events).message)>>
          ELSE <<>>)
         \o CompletedOf(Tail(events))

\* the ids of the tool calls named name of an assistant message
IdsNamed(msg, name) ==
    IF HasToolCalls(msg)
    THEN {Val(msg.tool_calls)[i].id :
             i \in {j \in 1..Len(Val(msg.tool_calls)) :
                       Val(msg.tool_calls)[j].name = name}}
    ELSE {}

\* the positions before k of the assistant message_complete events whose
\* message has a tool call named name
HoldersBefore(k, name) ==
    {i \in 1..(k - 1) :
        IsAssistantComplete(out[i]) /\ IdsNamed(Val(out[i].message), name) # {}}

SetMax(S) == CHOOSE x \in S : \A y \in S : y <= x

\* C1: a stream that has ended has emitted a round_complete or an error
\* event; it never ends with neither.
C1_NeverSilent ==
    StreamEnded => \E i \in 1..Len(out) : IsError(out[i]) \/ IsRound(out[i])

\* C2: once an exception was raised during the agent run the stream holds
\* exactly one error event and has ended; in every stream an error event is
\* the only one, is the last event, and no round_complete comes with it.
C2_ErrorIsTerminal ==
    /\ raised \in {"agent", "handler"} =>
           Cardinality(Positions(IsError)) = 1 /\ pc = "done"
    /\ Cardinality(Positions(IsError)) <= 1
    /\ \A i \in Positions(IsError) :
           i = Len(out) /\ Positions(IsRound) = {} /\ pc = "done"

C2_Witness ==
    /\ raised = "agent"
    /\ Len(out) >= 3
    /\ IsError(out[Len(out)])
    /\ \E i \in 1..Len(out) : IsAssistantComplete(out[i])

\* how many tool calls named name the assistant messages of events hold
RECURSIVE CallsNamed(_, _)
CallsNamed(events, name) ==
    IF events = <<>> THEN 0
    ELSE (IF IsAssistantComplete(Head(events)) /\ HasToolCalls(Val(Head(events).message))
          THEN Cardinality({i \in 1..Len(Val(Val(Head(events).message).tool_calls)) :
                   Val(Val(Head(events).message).tool_calls)[i].name = name})
          ELSE 0)
         + CallsNamed(Tail(events), name)

ResultsNamed(name) ==
    Cardinality({i \in Positions(IsToolComplete) :
                    Val(out[i].message).name = Some(name)})

\* C3: no two tool messages of a stream carry the same tool_call_id (stated
\* for the streams in which no tool has completed more often than it was
\* called, so that every result has a call of its own to be matched to).
C3_ToolCallMatchedOnce ==
    (\A name \in ToolNames : ResultsNamed(name) <= CallsNamed(out, name)) =>
        \A i \in Positions(IsToolComplete) : \A j \in Positions(IsToolComplete) :
            i # j => Val(out[i].message).tool_call_id
                         # Val(out[j].message).tool_call_id

\* C4: a tool message's tool_call_id is the id of a tool call of that name in
\* the most recently emitted assistant message that has such a call, whenever
\* an assistant message of this run has one.
C4_MostRecentAssistant ==
    \A k \in Positions(IsToolComplete) :
        LET name == Val(Val(out[k].message).name)
            holders == HoldersBefore(k, name)
        IN  holders # {} =>
                Val(Val(out[k].message).tool_call_id)
                    \in IdsNamed(Val(out[SetMax(holders)].message), name)

C4_Witness ==
    \E k \in Positions(IsToolComplete) :
        LET name == Val(Val(out[k].message).name)
            holders == HoldersBefore(k, name)
        IN  /\ Cardinality(holders) >= 2
            /\ \E i \in holders :
                   /\ i # SetMax(holders)
                   /\ Val(Val(out[k].message).tool_call_id)
                          \notin IdsNamed(Val(out[i].message), name)
            /\ Val(Val(out[k].message).tool_call_id)
                   \in IdsNamed(Val(out[SetMax(holders)].message), name)

\* C5: every on_tool_end event yields exactly one event, a message_complete
\* whose message has role tool and a non-empty tool_call_id equal to the
\* event's message_id.
C5_ToolEndYieldsToolMessage ==
    [][(\E e \in ToolEnds : OnToolEnd(e[1], e[2])) =>
          /\ Len(out') = Len(out) + 1
          /\ IsToolComplete(out'[Len(out')])
          /\ TruthyId(Val(out'[Len(out')].message).tool_call_id)
          /\ out'[Len(out')].message_id
                 = Val(out'[Len(out')].message).tool_call_id]_vars

C7_CompleteCarriesTurnId ==
    \A j \in Positions(IsAssistantComplete) :
        /\ IsSome(out[j].message_id)
        /\ \A i \in 1..(j - 1) :
               (IsDelta(out[i]) /\ \A m \in (i + 1)..(j - 1) : ~IsAssistantComplete(out[m]))
                   => out[i].message_id = out[j].message_id

\* C8: the texts of the message_delta events emitted so far are, in order and
\* one for one, the non-empty content fragments received so far (in every
\* state: a fragment's delta is out before the next agent event is handled).
C8_DeltasAreFragments == DeltasOf(out) = frags

C8_Witness ==
    /\ Len(frags) >= 2
    /\ frags[1] # frags[2]
    /\ DeltasOf(out) = frags
    /\ \E i \in 1..Len(out) : ~IsDelta(out[i])

\* C9: a stream whose feed was exhausted without an exception ends with its
\* only round_complete, whose messages are the request's messages followed by
\* the messages of the message_complete events in emission order; no stream
\* holds a round_complete anywhere else.
C9_RoundComplete ==
    /\ Cardinality(Positions(IsRound)) <= 1
    /\ \A i \in Positions(IsRound) :
           /\ i = Len(out)
           /\ out[i].messages = Some(messages \o CompletedOf(SubSeq(out, 1, i - 1)))
    /\ (pc = "done" /\ raised = "no") => Positions(IsRound) # {}

C9_Witness ==
    /\ pc = "done" /\ raised = "no"
    /\ lc_messages[1].content = SYSTEM_PROMPT
    /\ IsRound(out[Len(out)])
    /\ Len(Val(out[Len(out)].messages)) = Len(lc_messages) - 1 + Len(new_messages)
    /\ Positions(IsAssistantComplete) # {}
    /\ Positions(IsToolComplete) # {}

\* C10: the tool calls of an assistant message_complete are the accumulated
\* tool calls of the turn, with id and name of the starting fragment and the
\* concatenated argument fragments as arguments (stated for the turns that
\* streamed tool calls whose accumulated arguments are all valid JSON).
C10_CompleteCarriesAccumulatedCalls ==
    [][(/\ ModelEnds
        /\ agg.streamed
        /\ current_ai_tool_calls # <<>>
        /\ \A i \in 1..Len(current_ai_tool_calls) :
               IsSome(Loads(current_ai_tool_calls[i].arguments)))
          => Val(out'[Len(out')].message).tool_calls
                 = Some(current_ai_tool_calls)]_vars

\* C11: when a turn that streamed a tool call whose accumulated argument
\* text is not valid JSON completes, the assistant message_complete holds
\* that call with the raw accumulated text as its arguments, and the step
\* emits no error event.
C11_InvalidArgumentsEmittedRaw ==
    [][(/\ ModelEnds
        /\ agg.streamed)
          => /\ ~IsError(out'[Len(out')])
             /\ \A i \in 1..Len(current_ai_tool_calls) :
                    (/\ current_ai_tool_calls[i].arguments # <<>>
                     /\ IsNone(Loads(current_ai_tool_calls[i].arguments)))
                        => LET m == Val(out'[Len(out')].message)
                           IN  /\ HasToolCalls(m)
                               /\ \E j \in 1..Len(Val(m.tool_calls)) :
                                      Val(m.tool_calls)[j]
                                          = current_ai_tool_calls[i]]_vars

\* the positions of the fragments that start a call (they carry id and name)
StartsAt(fs) == {i \in 1..Len(fs) : IsSome(fs[i].id) /\ IsSome(fs[i].name)}

\* the position of the k-th starting fragment
NthStart(fs, k) ==
    CHOOSE p \in StartsAt(fs) : Cardinality({q \in StartsAt(fs) : q <= p}) = k

RECURSIVE ArgsOf(_, _, _)
\* the argument texts of fragments i..j, concatenated in arrival order
ArgsOf(fs, i, j) ==
    IF i > j THEN <<>> ELSE fs[i].args \o ArgsOf(fs, i + 1, j)

\* C12: the accumulator holds one record per started call of the turn (the
\* fragments received since the accumulators were last reset), in start
\* order, with the id and name of the starting fragment; a record's arguments
\* are the argument texts of its starting fragment and of the argument-only
\* fragments that arrived before the next start, concatenated in arrival
\* order.
C12_AccumulatorFollowsFragments ==
    LET n == Cardinality(StartsAt(tc_frags))
    IN  /\ Len(current_ai_tool_calls) = n
        /\ \A k \in 1..n :
               LET p == NthStart(tc_frags, k)
                   e == IF k < n THEN NthStart(tc_frags, k + 1) - 1
                        ELSE Len(tc_frags)
               IN  current_ai_tool_calls[k]
                       = ToolCall(Val(tc_frags[p].id), Val(tc_frags[p].name),
                             ArgsOf(tc_frags, p, e))

C12_Witness ==
    /\ Len(tc_frags) = 3
    /\ StartsAt(tc_frags) = {1, 2}
    /\ tc_frags[2].args # <<>> /\ tc_frags[3].args # <<>>
    /\ Len(current_ai_tool_calls) = 2
    /\ current_ai_tool_calls[1].arguments = tc_frags[1].args
    /\ current_ai_tool_calls[2].arguments = tc_frags[2].args \o tc_frags[3].args

\* the argument objects of a message's tool calls, in order
ParsedArguments(msg) ==
    [i \in 1..Len(Val(msg.tool_calls)) |->
        Loads(Val(msg.tool_calls)[i].arguments)]

\* an assistant message with tool calls whose arguments are all JSON text
\* and whose ids are all non-empty
RoundTripCase(msg) ==
    /\ msg.role = "assistant"
    /\ HasToolCalls(msg)
    /\ \A i \in 1..Len(Val(msg.tool_calls)) :
           /\ IsSome(Loads(Val(msg.tool_calls)[i].arguments))
           /\ Val(msg.tool_calls)[i].id # EmptyId

\* C13: an assistant message with tool calls, translated to the internal
\* form and back, has the same role, the same content, the same tool call
\* ids and names in the same order, and arguments that parse to the same
\* objects (stated for the messages whose arguments are JSON text and whose
\* tool call ids are non-empty).
C13_RoundTrip ==
    (t_pc = "back" /\ IsSome(t_msg) /\ RoundTripCase(Val(t_msg))) =>
        LET m == Val(t_msg)
            b == Val(t_back)
        IN  /\ b.role = m.role
            /\ b.content = m.content
            /\ HasToolCalls(b)
            /\ Len(Val(b.tool_calls)) = Len(Val(m.tool_calls))
            /\ \A i \in 1..Len(Val(m.tool_calls)) :
                   /\ Val(b.tool_calls)[i].id = Val(m.tool_calls)[i].id
                   /\ Val(b.tool_calls)[i].name = Val(m.tool_calls)[i].name
            /\ ParsedArguments(b) = ParsedArguments(m)

\* C14: the translator never returns a tool message without a non-empty
\* tool_call_id, in either direction: a tool message that lacks one makes
\* the translation fail.
C14_ToolMessageHasCallId ==
    /\ (IsSome(t_msg) /\ IsSome(t_lc) /\ Val(t_lc).type = "tool")
           => Val(t_lc).tool_call_id # EmptyId
    /\ (IsSome(t_back) /\ Val(t_back).role = "tool")
           => TruthyId(Val(t_back).tool_call_id)

\* a reference of one of the supported shapes
Supported(v) ==
    \/ v.shape = "record" /\ ~v.broken
    \/ v.shape = "dict" /\ HasKey(v, "id")
    \/ v.shape = "str" /\ \E i \in 1..Len(v.s) : v.s[i] = ":"

\* the canonical id of a supported reference
Canonical(v) ==
    IF v.shape = "record" THEN v.table_name \o <<":">> \o v.record_id
    ELSE IF v.shape = "str" THEN v.s
    ELSE IF HasKey(v, "table")
    THEN Get(v, "table").s \o <<":">> \o Get(v, "id").s
    ELSE IF Get(v, "id").shape = "record"
    THEN Get(v, "id").table_name \o <<":">> \o Get(v, "id").record_id
    ELSE Get(v, "id").s

\* C15: for a reference of a supported shape both copies of _record_to_id
\* return the canonical table:id string (for a mapping with table and id
\* keys: the table, a colon, the id), and they return the same result.
C15_CanonicalId ==
    /\ (IsSome(val) /\ Supported(Val(val)) /\ IsSome(graph_id))
           => Val(graph_id) = Canonical(Val(val))
    /\ (IsSome(val) /\ Supported(Val(val)) /\ IsSome(chat_id))
           => Val(chat_id) = Canonical(Val(val))
    /\ (IsSome(chat_id) /\ IsSome(graph_id)) => chat_id = graph_id

\* C16: _record_to_id returns the empty string for the null reference, and
\* applied to its own result it returns that result unchanged.
C16_TotalIdempotent ==
    /\ (IsSome(val) /\ Val(val) = PyNone /\ IsSome(graph_id))
           => Val(graph_id) = <<>>
    /\ IsSome(graph_again) => graph_again = graph_id

C16_Witness ==
    /\ IsSome(val) /\ Val(val).shape = "dict"
    /\ IsSome(graph_id) /\ Val(graph_id) # <<>>
    /\ IsSome(graph_again) /\ graph_again = graph_id

\* ------------------------------------------- recommendations, as specified
Answered == IsSome(response) /\ Val(response).status = 200

\* the ids of the recommendations, in order
RecommendedIds ==
    [i \in 1..Len(Val(response).recommendations) |->
        Val(response).recommendations[i].id]

\* the ids of the documents the nearest-neighbour rows name
HitIds == {Str(Val(r.doc).id) : r \in {Val(knn).rows[i] :
              i \in {j \in 1..Len(Val(knn).rows) : IsSome(Val(knn).rows[j].doc)}}}

\* a document's similarity: the highest of its rows
MaxSimilarity(id) ==
    LET sims == {Val(knn).rows[i].similarity :
                    i \in {j \in 1..Len(Val(knn).rows) :
                              /\ IsSome(Val(knn).rows[j].doc)
                              /\ Str(Val(Val(knn).rows[j].doc).id) = id}}
    IN  CHOOSE x \in sims : \A y \in sims : y <= x

\* the vector hits that may be recommended: not the source, when a search ran
VectorCandidates ==
    IF vector_searches > 0 /\ ~Val(knn).raises
    THEN HitIds \ {Val(node_id)}
    ELSE {}

\* the vector hits by decreasing similarity, cut at five
VectorPart ==
    LET Rank(id) ==
            Cardinality({x \in VectorCandidates :
                            MaxSimilarity(x) > MaxSimilarity(id)}) + 1
        n == IF Cardinality(VectorCandidates) < 5
             THEN Cardinality(VectorCandidates) ELSE 5
    IN  [k \in 1..n |-> CHOOSE id \in VectorCandidates : Rank(id) = k]

VectorIds == {VectorPart[k] : k \in 1..Len(VectorPart)}

\* the normalized end points of the k-th mentions edge
MentionIn(k) == _record_to_id(Val(db).mentions[k].in)
MentionOut(k) == _record_to_id(Val(db).mentions[k].out)

\* the steps of the mention walk from the source, as pairs <<i, j>>: for a
\* document, edge i is a mention by the source and edge j a mention of the
\* same concept; for a concept, i is 0 and edge j mentions the source
Walk ==
    LET E == 1..Len(Val(db).mentions)
    IN  IF StartsWith(Val(node_id), DocPrefix)
        THEN {<<i, j>> : i \in {i \in E : MentionIn(i) = Val(node_id)}, j \in E}
                 \cap {p \in (E \X E) : MentionOut(p[2]) = MentionOut(p[1])}
        ELSE {<<0, j>> : j \in {j \in E : MentionOut(j) = Val(node_id)}}

Before(p, q) == p[1] < q[1] \/ (p[1] = q[1] /\ p[2] < q[2])

\* a step that finds a document to recommend
Eligible(p) ==
    /\ MentionIn(p[2]) # <<>>
    /\ MentionIn(p[2]) # Val(node_id)
    /\ MentionIn(p[2]) \notin VectorIds
    /\ IsSome(get_doc(Val(db), MentionIn(p[2])))

\* the steps that find a document for the first time
Discoveries ==
    {p \in Walk : /\ Eligible(p)
                  /\ ~\E q \in Walk : /\ Before(q, p)
                                      /\ MentionIn(q[2]) = MentionIn(p[2])}

\* the fallback documents in discovery order, as many as there is room for
FallbackPart ==
    LET room == 5 - Len(VectorPart)
        n == IF Cardinality(Discoveries) < room
             THEN Cardinality(Discoveries) ELSE room
    IN  [k \in 1..n |->
            MentionIn((CHOOSE p \in Discoveries :
                Cardinality({q \in Discoveries : Before(q, p)}) = k - 1)[2])]

BareDocument ==
    /\ IsSome(node_id) /\ StartsWith(Val(node_id), DocPrefix)
    /\ IsSome(get_doc(Val(db), Val(node_id)))
    /\ Val(get_doc(Val(db), Val(node_id))).embedding = <<>>
    /\ get_chunks_by_doc(Val(db), Val(node_id)) = <<>>

C20_ToolsNeverRaise ==
    IsSome(tool_result) => ~Val(tool_result).raised

C22_UnexpectedShapeIgnored ==
    [][nEvents' = nEvents + 1 =>
           /\ pc' = "run"
           /\ \A i \in 1..Len(out') : ~IsError(out'[i])]_vars

\* the related concepts the answer of get_concept_details lists, in order
ListedNeighbors ==
    LET IsNeighbor(e) == e.entry = "neighbor"
        entries == SelectSeq(Val(tool_result).text, IsNeighbor)
    IN  [i \in 1..Len(entries) |-> entries[i].id]

\* the position of the first related edge that joins the concept c and n
FirstSeen(c, n) ==
    LET e == Val(db).related
        Joins(k) == {chat_record_to_id(e[k].in), chat_record_to_id(e[k].out)} = {c, n}
    IN  IF \E k \in 1..Len(e) : Joins(k)
        THEN CHOOSE k \in 1..Len(e) :
                 Joins(k) /\ \A j \in 1..(k - 1) : ~Joins(j)
        ELSE 0

\* the other endpoints of the related edges that have c at one end
OtherEndpoints(c) ==
    LET e == Val(db).related
    IN  {n \in UNION {{chat_record_to_id(e[k].in), chat_record_to_id(e[k].out)} :
                         k \in 1..Len(e)} : n # c /\ FirstSeen(c, n) > 0}

ConceptDetailsGiven ==
    /\ IsSome(tool_result)
    /\ Val(tool_call).name = "get_concept_details"
    /\ ~Val(tool_result).raised
    /\ Val(tool_result).text[1].entry = "concept"

C23_WitnessCapped ==
    ConceptDetailsGiven /\ Cardinality(OtherEndpoints(Val(tool_call).arg)) > 20

\* the fields of an event that are set (not None), besides its name
Populated(e) ==
    {f \in {"message_id", "delta", "message", "messages", "error"} : IsSome(e[f])}

\* C24: every event emitted is one of the four variants and has exactly the
\* fields of its variant set: message_delta message_id and delta,
\* message_complete message_id and message, round_complete messages, error
\* error.
C24_ExactlyOneVariant ==
    \A i \in 1..Len(out) :
        /\ out[i].event \in {"message_delta", "message_complete",
                              "round_complete", "error"}
        /\ IsDelta(out[i]) => Populated(out[i]) = {"message_id", "delta"}
        /\ IsComplete(out[i]) => Populated(out[i]) = {"message_id", "message"}
        /\ IsRound(out[i]) => Populated(out[i]) = {"messages"}
        /\ IsError(out[i]) => Populated(out[i]) = {"error"}

RECURSIVE Joined(_)
\* "".join(texts)
Joined(texts) ==
    IF texts = <<>> THEN <<>> ELSE Head(texts) \o Joined(Tail(texts))

\* the deltas of the turn that the assistant message_complete out[i] ends:
\* those emitted since the assistant message_complete before it
TurnDeltas(i) ==
    LET earlier == {p \in 1..(i - 1) : IsAssistantComplete(out[p])}
        from == IF earlier = {} THEN 1 ELSE SetMax(earlier) + 1
    IN  DeltasOf(SubSeq(out, from, i - 1))

\* C26: the content of every assistant message_complete is the concatenation
\* of the deltas emitted for its turn, in emission order, and is absent when
\* no delta was emitted for the turn.
C26_ContentIsJoinedDeltas ==
    \A i \in 1..Len(out) :
        IsAssistantComplete(out[i]) =>
            Val(out[i].message).content =
                IF TurnDeltas(i) = <<>> THEN None
                ELSE Some(Joined(TurnDeltas(i)))

Returned(op) ==
    /\ db_calls # <<>>
    /\ db_calls[Len(db_calls)].op = op
    /\ IsSome(db_result)

\* the similarities of the hits of the document with this id
HitsOf(id) ==
    {Val(knn).rows[k].similarity : k \in {k \in 1..Len(Val(knn).rows) :
        /\ IsSome(Val(knn).rows[k].doc)
        /\ Str(Val(Val(knn).rows[k].doc).id) = id}}

\* C27: what vector_search_docs returns has at most one entry per document
\* id, each a document that was hit with the highest similarity among its
\* hits, by non-increasing similarity, at most limit of them and none left
\* out while there is room; without a connection or without a hit it is
\* empty.
C27_DocsByBestChunk ==
    Returned("vector_search_docs") =>
        LET res == Val(db_result)
            limit == db_calls[Len(db_calls)].args[1]
            Id(i) == Str(res[i][1].id)
            hit == {Str(Val(Val(knn).rows[k].doc).id) :
                       k \in {k \in 1..Len(Val(knn).rows) :
                                 IsSome(Val(knn).rows[k].doc)}}
        IN  /\ (IsNone(db) \/ Val(knn).rows = <<>>) => res = <<>>
            /\ Len(res) <= limit
            /\ IsSome(db) => Len(res) = IF Cardinality(hit) < limit
                                         THEN Cardinality(hit) ELSE limit
            /\ \A i, j \in 1..Len(res) :
                   i < j => Id(i) # Id(j) /\ res[i][2] >= res[j][2]
            /\ \A i \in 1..Len(res) :
                   /\ Id(i) \in hit
                   /\ res[i][2] \in HitsOf(Id(i))
                   /\ \A x \in HitsOf(Id(i)) : x <= res[i][2]

\* C27: more documents were hit than the limit admits, and the first one
\* returned was hit twice
C27_Witness ==
    /\ Returned("vector_search_docs")
    /\ Len(Val(db_result)) = 3
    /\ Len(Val(knn).rows) > 5
    /\ Cardinality(HitsOf(Str(Val(db_result)[1][1].id))) = 2

\* no two edges of the list join the same pair
OneEdgePerPair(edges) ==
    \A i, j \in 1..Len(edges) :
        (edges[i].in = edges[j].in /\ edges[i].out = edges[j].out) => i = j

\* C28: whatever calls were made on a connected database, there is at most
\* one mentions edge per (document, concept) pair and at most one related
\* edge per pair of concepts.
C28_OneEdgePerPair ==
    IsSome(db) =>
        /\ OneEdgePerPair(Val(db).mentions)
        /\ OneEdgePerPair(Val(db).related)

\* C29: a call of delete_doc(d) on a connected database leaves no document d,
\* no chunk whose source is d and no mentions edge whose document is d, and
\* leaves the concepts, the related edges, the other documents and the other
\* documents' chunks and mentions edges as they were.
C29_DeleteCascades ==
    [][(/\ IsSome(db)
        /\ Len(db_calls') = Len(db_calls) + 1
        /\ db_calls'[Len(db_calls')].op = "delete_doc"
        /\ db_calls'[Len(db_calls')].args[1] \in {DocId("a"), DocId("b")}) =>
           LET d == db_calls'[Len(db_calls')].args[1]
               OtherDoc(row) == Str(row.id) # d
               OtherSource(c) == _record_to_id(c.source) # d
               OtherIn(m) == _record_to_id(m.in) # d
           IN  /\ Val(db').docs = SelectSeq(Val(db).docs, OtherDoc)
               /\ Val(db').chunks = SelectSeq(Val(db).chunks, OtherSource)
               /\ Val(db').mentions = SelectSeq(Val(db).mentions, OtherIn)
               /\ Val(db').concepts = Val(db).concepts
               /\ Val(db').related = Val(db).related]_vars

\* C30: a parse request with neither a url nor both file_content and
\* file_name is answered 400 "Either url or file_content must be provided";
\* an upload with neither a file nor both title and content is answered 400
\* (the database being reachable); get_node_detail answers 404 for a missing
\* node and 400 for an id with an unknown prefix; none is answered 500.
C30_ValidationErrorsKeepStatus ==
    IsSome(http_response) =>
        LET rq == Val(http_request)
            rs == Val(http_response)
            Given(o) == IsSome(o) /\ Val(o) # <<>>
        IN  /\ (/\ rq.endpoint = "parse"
                /\ ~Given(rq.url)
                /\ ~(Given(rq.file_content) /\ Given(rq.file_name)))
                   => /\ rs.status = 400
                      /\ rs.detail = "Either url or file_content must be provided"
            /\ (/\ rq.endpoint = "upload"
                /\ rs.detail # "Internal Server Error"
                /\ IsNone(rq.file)
                /\ ~(Given(rq.title) /\ Given(rq.content)))
                   => rs.status = 400
            /\ (rq.endpoint = "node" /\ rq.node_id \in {DocId("z"), ConceptId("z")})
                   => rs.status = 404
            /\ (rq.endpoint = "node"
                /\ rq.node_id = <<"c", "h", "u", "n", "k", ":", "a">>)
                   => rs.status = 400

====
